---- MODULE Spec2Model ----
(***************************************************************************)
(* A model of the AITrader signal pipeline:                                *)
(*   - pattern_engine/state.py and pattern_detector.py: the per-symbol     *)
(*     indicator state and SymbolState.update_and_detect (SpecDetector);   *)
(*   - pattern_engine/pattern_detector.py: _xadd_with_retry and the        *)
(*     shard's tick loop (SpecPublish);                                    *)
(*   - strategy_engine/ml_client.py: MLServiceManager.get_dual_forecast    *)
(*     and its caller get_enhanced_analysis (SpecRacer);                   *)
(*   - strategy_engine/enhanced_strategy_service.py: the signal consumer   *)
(*     process_signals_stream over a Redis consumer group (SpecConsumer),  *)
(*     and the decision step enhanced_decide_and_order with                *)
(*     calculate_combined_score (SpecDecide);                              *)
(*   - pattern_engine/partitioning.py: bin_pack_symbols and                *)
(*     select_partition_symbols for a fleet of shards (SpecPartition);     *)
(*   - pattern_engine/runner.py: run_replay (SpecReplay);                  *)
(*   - pattern_engine: where the EMA alpha is validated (SpecBoot), and    *)
(*     state.py's EMA, VWAP and Welford on their own (SpecState);          *)
(*   - the signal dict on its way through the signals stream               *)
(*     (SpecRoundTrip);                                                    *)
(*   - strategy_engine/calculator.py: Calculator (SpecCalculator);         *)
(*   - strategy_engine/enhanced_strategy_service.py: run and its three     *)
(*     coroutines on one event loop (SpecEngine), the price history        *)
(*     behind the ML analysis (SpecHistory), update_price_history on its   *)
(*     own (SpecTrim) and calculate_position_size (SpecSize);              *)
(*   - strategy_engine/ml_client.py: SentimentClient's cache               *)
(*     (SpecSentiment) and TensorRTClient's health probe (SpecTensorRT).   *)
(*                                                                         *)
(* Floats are modelled in fixed point: prices and price-valued indicators  *)
(* in units of 1/PScale, scores in units of 1/Milli, volume averages in    *)
(* units of 1/VScale.  Divisions round toward minus infinity.              *)
(***************************************************************************)
EXTENDS Integers, Sequences, FiniteSets, TLC

VARIABLES
    \* ---- pattern detector (one SymbolState) ----
    ss,         \* the SymbolState's fields
    ret,        \* what the last update_and_detect call returned
    emitted,    \* timestamps of the signals returned so far, oldest first
    nticks,     \* update_and_detect calls made after Init
    \* ---- shard tick loop and _xadd_with_retry ----
    max_retries,   \* cfg.redis_max_retries
    pub,           \* the running _xadd_with_retry call, if any
    due,           \* per symbol: ticks that have arrived and wait for the loop
    processed,     \* per symbol: ticks the loop has processed
    sent,          \* per symbol: signals the loop appended to the signals stream
    loop,          \* the tick loop: still running, the symbols whose tick raised,
                   \* and the xadd calls made for the last detected signal
    \* ---- MLServiceManager.get_dual_forecast ----
    race,          \* the get_dual_forecast call: where it stands, what it returned
    task,          \* per backend: the asyncio task the call created
    will,          \* per backend: what its call delivers if left to run, and when
    trt_available, \* TensorRTClient.available (cached health probe)
    nraces,        \* get_dual_forecast calls made
    \* ---- signals stream, consumer group, process_signals_stream ----
    stream,        \* signals:global, oldest first: the Signal.id of each record
    last_delivered,\* the group's last-delivered record (0: none)
    pel,           \* the group's pending entries: <<record, consumer name>>
    acked,         \* records acknowledged with xack
    orders,        \* orders:gateway, oldest first
    cons,          \* the strategy consumer process
    handled,       \* per record: how its last processing went
    deliveries,    \* per record: how often xreadgroup delivered it
    \* ---- the strategy's decision step ----
    calc,          \* a direct call of calculate_combined_score
    dec,           \* a call of enhanced_decide_and_order: its signal, its result
    \* ---- partitioning ----
    pack,          \* a call of bin_pack_symbols: its arguments, its result
    fleet,         \* what every shard of the fleet is configured with
    started,       \* the partition indexes of the shards that have started
    served,        \* per partition index: the symbols that shard serves
    \* ---- run_replay ----
    replay,        \* the run_replay call: its rows, its position, what it did
    \* ---- detector startup ----
    boot,          \* the pattern engine process: its alpha, where it stands
    \* ---- state.py objects on their own ----
    unit,          \* which object is fed: "ema", "vwap" or "welford"
    emaObj,        \* an EMA: alpha, value, inputs so far, last return value
    vwapObj,       \* a VWAP: accumulators, inputs so far, last return value
    welfordObj,    \* a Welford: count/mean/m2, inputs so far, variance read
    rt,          \* signal round trip: emitted signal, signals stream, records read
    states,      \* Calculator._states: symbol -> SymbolState
    called,      \* the last Calculator method called and what it returned
    nupdates,    \* Calculator.update calls so far
    eng,         \* strategy engine event loop: coroutines, stream counters
    hist,        \* strategy engine price history and the last decide call
    size,        \* one calculate_position_size call: arguments, maximum, result
    senti,       \* SentimentClient: cache, clock, the last get_symbol_sentiment call
    trt,         \* TensorRTClient: cached availability, requests sent, last call
    \* ---- update_price_history on its own ----
    trim           \* price_history, the prices appended per symbol, the last call

detVars == <<ss, ret, emitted, nticks>>
pubVars == <<max_retries, pub, due, processed, sent, loop>>
raceVars == <<race, task, will, trt_available, nraces>>
consVars == <<stream, last_delivered, pel, acked, orders, cons, handled, deliveries>>
decVars == <<calc, dec>>
partVars == <<pack, fleet, started, served>>
replayVars == <<replay>>
bootVars == <<boot>>
stateVars == <<unit, emaObj, vwapObj, welfordObj>>
rtVars == <<rt>>
calcVars == <<states, called, nupdates>>
engVars == <<eng>>
histVars == <<hist>>
sizeVars == <<size>>
sentiVars == <<senti>>
trtVars == <<trt>>
trimVars == <<trim>>
vars == <<detVars, pubVars, raceVars, consVars, decVars, partVars, replayVars, bootVars, stateVars, rtVars, calcVars, engVars, histVars, sizeVars, sentiVars, trtVars, trimVars>>
notDet == <<pubVars, raceVars, consVars, decVars, partVars, replayVars, bootVars, stateVars, rtVars, calcVars, engVars, histVars, sizeVars, sentiVars, trtVars, trimVars>>
notPub == <<detVars, raceVars, consVars, decVars, partVars, replayVars, bootVars, stateVars, rtVars, calcVars, engVars, histVars, sizeVars, sentiVars, trtVars, trimVars>>
notRace == <<detVars, pubVars, consVars, decVars, partVars, replayVars, bootVars, stateVars, rtVars, calcVars, engVars, histVars, sizeVars, sentiVars, trtVars, trimVars>>
notCons == <<detVars, pubVars, raceVars, decVars, partVars, replayVars, bootVars, stateVars, rtVars, calcVars, engVars, histVars, sizeVars, sentiVars, trtVars, trimVars>>
notDec == <<detVars, pubVars, raceVars, consVars, partVars, replayVars, bootVars, stateVars, rtVars, calcVars, engVars, histVars, sizeVars, sentiVars, trtVars, trimVars>>
notPart == <<detVars, pubVars, raceVars, consVars, decVars, replayVars, bootVars, stateVars, rtVars, calcVars, engVars, histVars, sizeVars, sentiVars, trtVars, trimVars>>
notReplay == <<detVars, pubVars, raceVars, consVars, decVars, partVars, bootVars, stateVars, rtVars, calcVars, engVars, histVars, sizeVars, sentiVars, trtVars, trimVars>>
notBoot == <<detVars, pubVars, raceVars, consVars, decVars, partVars, replayVars, stateVars, rtVars, calcVars, engVars, histVars, sizeVars, sentiVars, trtVars, trimVars>>
notState == <<detVars, pubVars, raceVars, consVars, decVars, partVars, replayVars, bootVars, rtVars, calcVars, engVars, histVars, sizeVars, sentiVars, trtVars, trimVars>>
notRt == <<detVars, pubVars, raceVars, consVars, decVars, partVars, replayVars, bootVars, stateVars, calcVars, engVars, histVars, sizeVars, sentiVars, trtVars, trimVars>>
notCalc == <<detVars, pubVars, raceVars, consVars, decVars, partVars, replayVars, bootVars, stateVars, rtVars, engVars, histVars, sizeVars, sentiVars, trtVars, trimVars>>
notEng == <<detVars, pubVars, raceVars, consVars, decVars, partVars, replayVars, bootVars, stateVars, rtVars, calcVars, histVars, sizeVars, sentiVars, trtVars, trimVars>>
notHist == <<detVars, pubVars, raceVars, consVars, decVars, partVars, replayVars, bootVars, stateVars, rtVars, calcVars, engVars, sizeVars, sentiVars, trtVars, trimVars>>
notSize == <<detVars, pubVars, raceVars, consVars, decVars, partVars, replayVars, bootVars, stateVars, rtVars, calcVars, engVars, histVars, sentiVars, trtVars, trimVars>>
notSenti == <<detVars, pubVars, raceVars, consVars, decVars, partVars, replayVars, bootVars, stateVars, rtVars, calcVars, engVars, histVars, sizeVars, trtVars, trimVars>>
notTrt == <<detVars, pubVars, raceVars, consVars, decVars, partVars, replayVars, bootVars, stateVars, rtVars, calcVars, engVars, histVars, sizeVars, sentiVars, trimVars>>
notTrim == <<detVars, pubVars, raceVars, consVars, decVars, partVars, replayVars, bootVars, stateVars, rtVars, calcVars, engVars, histVars, sizeVars, sentiVars, trtVars>>

(***************************************************************************)
(* Fixed-point resolutions (not program constants).                        *)
(***************************************************************************)
PScale == 100 * 100
Milli == 10 * 100
VScale == 10 * 10

\* Bounds of the model.
MaxWarm == 5
MaxTicks == 3

\* Inputs.  Prices are in units of 1/PScale (0.10 and 1.00), volumes are
\* whole numbers, timestamps are whole seconds around the cooldown and are
\* fed in any order.
Prices == {1000, 10000}
Volumes == {0, 1, 10}
Timestamps == {30, 31, 61, 62}

\* cfg.signal_cooldown_seconds, cfg.signal_score_min (in 1/Milli)
SignalCooldownDefault == 30
SignalScoreMinMilli == 300
Cooldowns == {0, SignalCooldownDefault}

NoneVal == 0 - 1

Abs(x) == IF x < 0 THEN -x ELSE x
Min2(a, b) == IF a < b THEN a ELSE b
Max2(a, b) == IF a > b THEN a ELSE b

\* Largest r with r*r <= n, by bisection on lo..hi.
RECURSIVE ISqrtIn(_, _, _)
ISqrtIn(n, lo, hi) ==
    IF lo >= hi THEN lo
    ELSE LET mid == (lo + hi + 1) \div 2
         IN  IF mid * mid <= n THEN ISqrtIn(n, mid, hi) ELSE ISqrtIn(n, lo, mid - 1)

ISqrt(n) == ISqrtIn(n, 0, 40000)

(***************************************************************************)
(* pattern_engine/state.py                                                 *)
(***************************************************************************)
EMAUpdateSwapped(value, num, den, x) ==
    IF value = NoneVal THEN x
    ELSE ((den - num) * x + num * value) \div den

\* EMA.update with alpha = num/den; value NoneVal is Python's None.
EMAUpdate(value, num, den, x) ==
    IF value = NoneVal THEN x
    ELSE (num * x + (den - num) * value) \div den

\* VWAP.update: the returned value given the accumulators after the update.
VWAPValue(pv, volume) == IF volume = 0 THEN 0 ELSE pv \div volume

VWAPAccumulateLast(v, price, volume) ==
    [pv |-> price * volume, volume |-> volume]

\* VWAP.update: the accumulators _pv and _volume after the update.
VWAPAccumulate(v, price, volume) ==
    [pv |-> v.pv + price * volume, volume |-> v.volume + volume]

WelfordUpdateOneDelta(w, x) ==
    LET count == w.count + 1
        delta == x - w.mean
        mean  == w.mean + (delta \div count)
    IN  [count |-> count, mean |-> mean, m2 |-> w.m2 + delta * delta]

\* Welford.update on [count, mean, m2].
WelfordUpdate(w, x) ==
    LET count == w.count + 1
        delta == x - w.mean
        mean  == w.mean + (delta \div count)
        delta2 == x - mean
    IN  [count |-> count, mean |-> mean, m2 |-> w.m2 + delta * delta2]

\* Welford.variance and Welford.std (std in units of 1/PScale).
WelfordVariance(w) == IF w.count < 2 THEN 0 ELSE w.m2 \div (w.count - 1)
WelfordStd(w) == ISqrt(WelfordVariance(w))

(***************************************************************************)
(* pattern_engine/pattern_detector.py: PatternDetector.SymbolState         *)
(***************************************************************************)
NoPattern == "none"

\* SymbolState.__init__
NewSymbolState(cooldown) ==
    [ema_fast |-> NoneVal, ema_slow |-> NoneVal,
     vwap_pv |-> 0, vwap_volume |-> 0,
     welford |-> [count |-> 0, mean |-> 0, m2 |-> 0],
     last_signal_time |-> 0,
     signal_cooldown |-> cooldown,
     avg_volume_ema |-> NoneVal]

NoneRet ==
    [kind |-> "none", score |-> 0, raw_score |-> 0, pattern |-> NoPattern,
     timestamp |-> 0, id |-> 0, confidence |-> 0,
     fired |-> <<FALSE, FALSE, FALSE, FALSE>>]

\* "signal_score = max(-1.0, min(1.0, signal_score))"
ClampLowerOnly(score) == Max2(-Milli, score)
ClampScore(score) == Max2(-Milli, Min2(Milli, score))

\* "timestamp - self.last_signal_time > self.signal_cooldown"
CooldownOverInclusive(timestamp, last_signal_time, cooldown) ==
    timestamp - last_signal_time >= cooldown
CooldownOver(timestamp, last_signal_time, cooldown) ==
    timestamp - last_signal_time > cooldown

VolatilityRuleRaisesAlways(count, price) == count > 5

\* "abs(price - (ema_fast or price)) / price" inside "if self.welford.count > 5":
\* ZeroDivisionError for a price of 0
VolatilityRuleRaises(count, price) == count > 5 /\ price = 0

SignificantInclusive(score) == Abs(score) >= SignalScoreMinMilli

\* "abs(signal_score) > cfg.signal_score_min"
Significant(score) == Abs(score) > SignalScoreMinMilli

\* "0.3 if signal_score > 0 else -0.3" (and 0.4 likewise), in 1/Milli
SignedStep(score, step) == IF score > 0 THEN step ELSE -step

\* update_and_detect(price, volume, timestamp) on state s:
\* [state |-> the fields afterwards, ret |-> what the call returns].
UpdateAndDetect(s, price, volume, timestamp) ==
    LET \* Update all indicators
        ema_fast == EMAUpdate(s.ema_fast, 1, 10, price)
        ema_slow == EMAUpdate(s.ema_slow, 1, 20, price)
        pv == s.vwap_pv + price * volume
        vvol == s.vwap_volume + volume
        vwap_price == VWAPValue(pv, vvol)
        w == WelfordUpdate(s.welford, price)
        \* EMA Crossover Pattern
        ema_ok == ema_fast # 0 /\ ema_slow # 0
        ema_hit == ema_ok /\ Abs(ema_fast - ema_slow) * 100 > Abs(ema_slow)
        score1 == IF ema_hit
                  THEN (2 * (ema_fast - ema_slow) * Milli) \div ema_slow
                  ELSE 0
        pattern1 == IF ema_hit THEN "ema_crossover" ELSE NoPattern
        \* VWAP Deviation Pattern
        vwap_hit == vwap_price # 0
                    /\ Abs(price - vwap_price) * 200 > Abs(vwap_price)
        score2 == IF vwap_hit
                  THEN score1 + (3 * (price - vwap_price) * Milli) \div (2 * vwap_price)
                  ELSE score1
        pattern2 == IF vwap_hit /\ pattern1 = NoPattern
                    THEN "vwap_deviation" ELSE pattern1
        \* Volume Spike Pattern
        avg_new == IF volume > 0
                   THEN EMAUpdate(s.avg_volume_ema, 1, 10, volume * VScale)
                   ELSE s.avg_volume_ema
        avg_volume == IF avg_new = NoneVal \/ avg_new = 0
                      THEN volume * VScale ELSE avg_new
        vol_hit == volume > 0 /\ volume * VScale > 2 * avg_volume
        score3 == IF vol_hit THEN score2 + SignedStep(score2, 300) ELSE score2
        pattern3 == IF vol_hit THEN "volume_spike" ELSE pattern2
        \* Volatility Pattern ("/ price" raises ZeroDivisionError at price 0)
        vol_rule == w.count > 5
        raises == VolatilityRuleRaises(w.count, price)
        base == IF ema_fast # 0 THEN ema_fast ELSE price
        brk_hit == vol_rule /\ price > 0
                   /\ Abs(price - base) * PScale > 2 * WelfordStd(w) * price
        score4 == IF brk_hit THEN score3 + SignedStep(score3, 400) ELSE score3
        pattern4 == IF brk_hit THEN "volatility_breakout" ELSE pattern3
        \* Normalize, then gate on significance and cooldown
        signal_score == ClampScore(score4)
        emit == ~raises
                /\ Significant(signal_score)
                /\ CooldownOver(timestamp, s.last_signal_time, s.signal_cooldown)
        updated == [s EXCEPT !.ema_fast = ema_fast, !.ema_slow = ema_slow,
                             !.vwap_pv = pv, !.vwap_volume = vvol,
                             !.welford = w, !.avg_volume_ema = avg_new]
        fired == <<ema_hit, vwap_hit, vol_hit, brk_hit>>
    IN  IF raises
        THEN [state |-> updated, ret |-> [NoneRet EXCEPT !.kind = "raise"]]
        ELSE IF emit
        THEN [state |-> [updated EXCEPT !.last_signal_time = timestamp],
              ret |-> [kind |-> "signal", score |-> signal_score,
                       raw_score |-> score4,
                       pattern |-> IF pattern4 = NoPattern THEN "composite" ELSE pattern4,
                       timestamp |-> timestamp, id |-> timestamp,
                       confidence |-> Min2(Milli, Max2(0, Abs(signal_score))),
                       fired |-> fired]]
        ELSE [state |-> updated,
              ret |-> [NoneRet EXCEPT !.raw_score = score4, !.score = signal_score,
                                      !.fired = fired]]

\* The state after n ticks of one price at timestamp 0 (no signal is returned
\* at timestamp 0: 0 - last_signal_time > cooldown fails for cooldown >= 0).
RECURSIVE Warm(_, _, _, _)
Warm(s, n, price, volume) ==
    IF n = 0 THEN s
    ELSE Warm(UpdateAndDetect(s, price, volume, 0).state, n - 1, price, volume)

\* A SymbolState as constructed, before any tick.
DetQuiet ==
    /\ ss = NewSymbolState(SignalCooldownDefault)
    /\ ret = NoneRet
    /\ emitted = <<>>
    /\ nticks = 0

DetInit ==
    /\ \E c \in Cooldowns, n \in {0, MaxWarm}, p \in Prices :
          ss = Warm(NewSymbolState(c), n, p, 1)
    /\ ret = NoneRet
    /\ emitted = <<>>
    /\ nticks = 0

\* One call of update_and_detect by the shard's tick loop.  ret keeps the
\* call's timestamp next to what the call returned.
Tick ==
    /\ nticks < MaxTicks
    /\ \E p \in Prices, v \in Volumes, t \in Timestamps :
          LET r == UpdateAndDetect(ss, p, v, t)
          IN  /\ ss' = r.state
              /\ ret' = [r.ret EXCEPT !.timestamp = t]
              /\ emitted' = IF r.ret.kind = "signal" THEN Append(emitted, t) ELSE emitted
    /\ nticks' = nticks + 1
    /\ UNCHANGED notDet

DetNext == Tick

\* C1: no two signals of a symbol are returned within cooldown_seconds of each
\* other: every returned signal's timestamp exceeds the timestamp of every
\* earlier returned signal by more than the cooldown.
C1_CooldownSeparation ==
    \A i, j \in 1..Len(emitted) :
        i < j => emitted[j] - emitted[i] > ss.signal_cooldown

C1_Witness == Len(emitted) >= 2 /\ ss.signal_cooldown = SignalCooldownDefault

\* C13: update_and_detect returns a signal exactly when the normalised score
\* is above signal_score_min in absolute value and the tick's timestamp is more
\* than the cooldown after last_signal_time; last_signal_time becomes the
\* tick's timestamp exactly when a signal is returned, and a tick that returns
\* None leaves it unchanged.
C13_EmitExactlyWhenGated ==
    [][nticks' # nticks =>
          LET gate == /\ Abs(ret'.score) > SignalScoreMinMilli
                      /\ ret'.timestamp - ss.last_signal_time > ss.signal_cooldown
          IN  /\ ret'.kind = "signal" <=> gate
              /\ ret'.kind = "signal" => ss'.last_signal_time = ret'.timestamp
              /\ ret'.kind = "none" => ss'.last_signal_time = ss.last_signal_time]_vars

\* A significant score held back by the cooldown: None is returned and
\* last_signal_time still holds the earlier signal's timestamp.
C13_Witness ==
    /\ ret.kind = "none" /\ nticks > 0
    /\ Abs(ret.score) > SignalScoreMinMilli
    /\ Len(emitted) >= 1
    /\ ss.last_signal_time = emitted[Len(emitted)]
    /\ ret.timestamp - ss.last_signal_time <= ss.signal_cooldown

\* C22: for ticks with price > 0 and volume >= 0, every call of
\* update_and_detect returns None or a well-formed signal (a score in [-1, 1]
\* that passed the threshold, a pattern label, a confidence in [0, 1], the
\* tick's timestamp) and never raises, whatever state earlier ticks left.
C22_NoneOrWellFormedSignal ==
    nticks > 0 =>
        /\ ret.kind \in {"none", "signal"}
        /\ ret.kind = "signal" =>
              /\ 0 - Milli <= ret.score /\ ret.score <= Milli
              /\ Abs(ret.score) > SignalScoreMinMilli
              /\ ret.pattern \in {"ema_crossover", "vwap_deviation", "volume_spike",
                                  "volatility_breakout", "composite"}
              /\ 0 <= ret.confidence /\ ret.confidence <= Milli
              /\ ret.id = ret.timestamp

\* After more than five ticks, a tick at the same price level with a volume
\* spike: the volatility rule divided by the price and None came back.
C22_Witness ==
    /\ nticks > 0 /\ ss.welford.count > 5
    /\ ret.kind = "none"
    /\ ret.fired = <<FALSE, FALSE, TRUE, FALSE>>

\* C14: when several rules fire on one tick the signal's pattern is the label
\* of the first rule that fired, in the order EMA crossover, VWAP deviation,
\* volume spike, volatility breakout: no later rule overwrites the label.
C14_FirstRuleLabels ==
    ret.kind = "signal" =>
        ret.pattern = (IF ret.fired[1] THEN "ema_crossover"
                       ELSE IF ret.fired[2] THEN "vwap_deviation"
                       ELSE IF ret.fired[3] THEN "volume_spike"
                       ELSE IF ret.fired[4] THEN "volatility_breakout"
                       ELSE "composite")

\* C10: every signal returned by update_and_detect has a score in [-1, 1].
C10_ScoreClamped ==
    ret.kind = "signal" => (-Milli <= ret.score /\ ret.score <= Milli)

C10_Witness ==
    /\ ret.kind = "signal"
    /\ ret.raw_score > Milli
    /\ ret.fired[1] /\ ret.fired[2] /\ ret.fired[3]

\* C32: every tick, a tick of volume 0 included, updates the Welford
\* accumulator and the volume EMA baseline with the tick's values (the
\* tick's volume is what the call added to the VWAP's cumulative volume;
\* the baseline's alpha is 0.1).
C32_EveryTickUpdatesAllIndicators ==
    [][nticks' # nticks =>
          LET volume == ss'.vwap_volume - ss.vwap_volume
          IN  /\ ss'.welford.count = ss.welford.count + 1
              /\ ss'.avg_volume_ema =
                     IF ss.avg_volume_ema = NoneVal THEN volume * VScale
                     ELSE (volume * VScale + 9 * ss.avg_volume_ema) \div 10]_vars

\* C33: when the volume-spike rule is the only rule that fires, the score
\* accumulated before it is 0 and the rule adds +0.3; when no volatility
\* breakout follows it, the score after it is at least 0.3 or below -0.3.
C33_VolumeSpikeDefaultsPositive ==
    /\ (ret.fired[3] /\ ~ret.fired[1] /\ ~ret.fired[2] /\ ~ret.fired[4]) =>
           ret.raw_score = 300
    /\ (ret.fired[3] /\ ~ret.fired[4]) =>
           (ret.raw_score >= 300 \/ ret.raw_score < 0 - 300)

\* C36: the first signal a SymbolState returns carries a timestamp greater
\* than its cooldown, last_signal_time being 0 until then.
C36_FirstSignalAfterCooldown ==
    Len(emitted) >= 1 => emitted[1] > ss.signal_cooldown

\* A first signal one second after the cooldown has passed.
C36_Witness ==
    /\ Len(emitted) >= 1
    /\ ss.signal_cooldown = SignalCooldownDefault
    /\ emitted[1] = ss.signal_cooldown + 1

(***************************************************************************)
(* pattern_engine/pattern_detector.py: the shard's tick loop               *)
(* (generate_mock_ticks) and the publish helper _xadd_with_retry.  The     *)
(* process has one thread, the one that runs the event loop.  The helper   *)
(* is a plain function: from its call to its return or raise, time.sleep   *)
(* included, that thread runs nothing else.                                *)
(***************************************************************************)
Symbols == {"AAPL", "MSFT"}

\* Bounds: the largest configured retry count, and ticks fed per symbol.
MaxRetryCfg == 3
MaxDue == 2

\* cfg.redis_max_retries default
RedisMaxRetriesDefault == 3

PubIdle ==
    [pc |-> "idle", symbol |-> "", attempt |-> 0, attempts |-> 0,
     successes |-> 0, result |-> 0]

\* "for attempt in range(1, cfg.redis_max_retries + 1)": the loop runs its body
\* for this value of attempt.
InRangeOffByOne(attempt, maxr) == attempt <= maxr + 1
InRange(attempt, maxr) == attempt <= maxr

\* Where the call stands when the loop reaches `attempt`: in the body's xadd,
\* or past the loop at "raise last_exc".
LoopAt(attempt, maxr) == IF InRange(attempt, maxr) THEN "xadd" ELSE "raised"

\* generate_mock_ticks as started: inside "while True", no tick has raised.
LoopRunning ==
    [alive |-> TRUE, faulted |-> {}, signal_xadds |-> 0, first_failed |-> FALSE]

PubInit ==
    /\ max_retries \in 0..MaxRetryCfg
    /\ pub = PubIdle
    /\ due = [s \in Symbols |-> 0]
    /\ processed = [s \in Symbols |-> 0]
    /\ sent = [s \in Symbols |-> 0]
    /\ loop = LoopRunning

\* The shard as started with the default configuration.
PubQuiet ==
    /\ max_retries = RedisMaxRetriesDefault
    /\ pub = PubIdle
    /\ due = [s \in Symbols |-> 0]
    /\ processed = [s \in Symbols |-> 0]
    /\ sent = [s \in Symbols |-> 0]
    /\ loop = LoopRunning

\* The feed has a tick of symbol s ready for the loop.
TickArrives(s) ==
    /\ due[s] + processed[s] < MaxDue
    /\ due' = [due EXCEPT ![s] = @ + 1]
    /\ UNCHANGED <<max_retries, pub, processed, sent, loop, notPub>>

\* What update_and_detect does for a tick: returns None, returns a signal, or
\* raises (ZeroDivisionError in the volatility rule for a price of 0).
DetectOutcomes == {"none", "signal", "raise"}

\* One pass of the tick loop's body for a tick of s: update_and_detect, the
\* tick's xadd, and for a detected signal one xadd to the signals stream
\* whose failure is logged.  The call of update_and_detect is not inside any
\* try: when it raises, the exception leaves the for and the while loop and
\* generate_mock_ticks ends.  The body runs on the event loop's thread, so
\* only while that thread is not inside _xadd_with_retry.
ProcessTick(s) ==
    /\ pub.pc = "idle"
    /\ loop.alive
    /\ due[s] > 0
    /\ due' = [due EXCEPT ![s] = @ - 1]
    /\ \E r \in DetectOutcomes, ok \in BOOLEAN :
          IF r = "raise"
          THEN /\ loop' = [loop EXCEPT !.alive = FALSE, !.faulted = @ \cup {s}]
               /\ UNCHANGED <<processed, sent>>
          ELSE /\ processed' = [processed EXCEPT ![s] = @ + 1]
               /\ sent' = IF r = "signal" /\ ok
                          THEN [sent EXCEPT ![s] = @ + 1] ELSE sent
               /\ loop' = IF r = "signal"
                          THEN [loop EXCEPT !.signal_xadds = 1,
                                            !.first_failed = ~ok]
                          ELSE loop
    /\ UNCHANGED <<max_retries, pub, notPub>>

\* _xadd_with_retry(client, stream, data) is called for a record of symbol s
\* and reaches the head of its loop with attempt = 1.
PublishCalled(s) ==
    /\ pub.pc = "idle"
    /\ pub' = [PubIdle EXCEPT !.pc = LoopAt(1, max_retries), !.symbol = s, !.attempt = 1]
    /\ UNCHANGED <<max_retries, due, processed, sent, loop, notPub>>

\* "return client.xadd(stream, data)" succeeds: the call returns its result.
XaddOk ==
    /\ pub.pc = "xadd"
    /\ pub' = [pub EXCEPT !.pc = "returned", !.attempts = @ + 1,
                          !.successes = @ + 1, !.result = pub.attempt]
    /\ UNCHANGED <<max_retries, due, processed, sent, loop, notPub>>

\* client.xadd raises: last_exc is kept and the thread enters time.sleep.
XaddFails ==
    /\ pub.pc = "xadd"
    /\ pub' = [pub EXCEPT !.pc = "sleeping", !.attempts = @ + 1]
    /\ UNCHANGED <<max_retries, due, processed, sent, loop, notPub>>

\* time.sleep(cfg.redis_retry_delay_seconds) returns; the loop goes on.
SleepDone ==
    /\ pub.pc = "sleeping"
    /\ pub' = [pub EXCEPT !.pc = LoopAt(pub.attempt + 1, max_retries),
                          !.attempt = @ + 1]
    /\ UNCHANGED <<max_retries, due, processed, sent, loop, notPub>>

\* The call is over (returned or raised) and the caller goes on.
PublishEnds ==
    /\ pub.pc \in {"returned", "raised"}
    /\ pub' = PubIdle
    /\ UNCHANGED <<max_retries, due, processed, sent, loop, notPub>>

PubNext ==
    \/ \E s \in Symbols : TickArrives(s)
    \/ \E s \in Symbols : ProcessTick(s)
    \/ \E s \in Symbols : PublishCalled(s)
    \/ XaddOk
    \/ XaddFails
    \/ SleepDone
    \/ PublishEnds

\* C8: _xadd_with_retry makes at most redis_max_retries xadd attempts for one
\* record; it returns the result of the first successful attempt without
\* attempting again; when all redis_max_retries attempts failed it raises.
C8_BoundedRetry ==
    /\ pub.attempts <= max_retries
    /\ pub.successes <= 1
    /\ pub.successes = 1 => pub.pc = "returned" /\ pub.result = pub.attempts
    /\ pub.pc = "returned" => pub.successes = 1
    /\ (pub.pc = "raised") <=>
          (pub.pc \notin {"idle", "xadd", "sleeping"} /\ pub.successes = 0)
    /\ pub.pc = "raised" => pub.attempts = max_retries

C8_Witness ==
    /\ pub.pc = "raised"
    /\ max_retries = RedisMaxRetriesDefault
    /\ pub.attempts = RedisMaxRetriesDefault

\* C9: while a publish waits out its retry delay, the shard keeps processing
\* ticks of other symbols: a waiting tick of another symbol can be processed.
C9_RetryDelayDoesNotStall ==
    (pub.pc = "sleeping" /\ loop.alive) =>
        \A s \in Symbols \ {pub.symbol} : due[s] > 0 => ENABLED ProcessTick(s)

\* C19: an error raised by update_and_detect for one symbol's tick does not
\* stop the shard's tick loop: waiting ticks of the other symbols, and later
\* ticks of the shard, can still be processed.
C19_TickErrorIsolated ==
    (loop.faulted # {} /\ pub.pc = "idle") =>
        \A s \in Symbols : due[s] > 0 => ENABLED ProcessTick(s)

\* C30: when the first xadd of a detected signal fails and more than one
\* attempt is configured, the tick loop makes a further xadd for that signal.
C30_FailedSignalRetried ==
    (loop.first_failed /\ max_retries >= 2) => loop.signal_xadds >= 2

(***************************************************************************)
(* strategy_engine/ml_client.py: MLServiceManager.get_dual_forecast, the    *)
(* two backend calls it races, and the caller's wait_for.                  *)
(*                                                                         *)
(* A backend call delivers one of                                          *)
(*   "forecast": the backend answered with a non-empty forecast;           *)
(*   "zeros":    ONNXClient.get_forecast's except paths,                   *)
(*               {"forecast": [0.0] * horizon, ..., "meta": {"error"}};    *)
(*   "empty":    TensorRTClient.get_forecast's unavailable and except      *)
(*               paths, {"forecast": [], ...}.                             *)
(* `late` says the call needs longer than asyncio.wait's 3.0 s.  Timers    *)
(* and wake-ups run when the event loop next runs a callback; the loop is  *)
(* shared with the synchronous Redis calls of the stream consumers.        *)
(***************************************************************************)
Backends == {"onnx", "tensorrt"}

\* "len(history) < 10"
MinHistory == 10
HistoryLens == {MinHistory - 1, MinHistory}

\* Bound: get_dual_forecast calls in one run.
MaxRaces == 2

Delivers(b) == IF b = "onnx" THEN {"forecast", "zeros"} ELSE {"forecast", "empty"}

Wills ==
    {w \in [Backends -> [outcome : {"forecast", "zeros", "empty"}, late : BOOLEAN]] :
        \A b \in Backends : w[b].outcome \in Delivers(b)}

NoWill == [b \in Backends |-> [outcome |-> "empty", late |-> FALSE]]

RaceIdle == [pc |-> "idle", symbol |-> "", hlen |-> 0, source |-> "", result |-> ""]

RaceQuiet ==
    /\ race = RaceIdle
    /\ task = [b \in Backends |-> "none"]
    /\ will = NoWill
    /\ trt_available = "none"
    /\ nraces = 0

RaceInit == RaceQuiet

\* "if result.get("forecast") and len(result["forecast"]) > 0"
WellFormed(outcome) == outcome \in {"forecast", "zeros"}

\* TensorRTClient.is_available: with the probe's answer cached as False the
\* call returns the empty forecast at once.
WillAllowed(w) ==
    trt_available = "false" => w["tensorrt"] = [outcome |-> "empty", late |-> FALSE]

\* get_dual_forecast is called: the insufficient-history return, or both
\* backend tasks are created and the call awaits asyncio.wait.
RaceStart ==
    /\ race.pc = "idle"
    /\ nraces < MaxRaces
    /\ nraces' = nraces + 1
    /\ \E sym \in Symbols, hlen \in HistoryLens, w \in Wills :
          IF hlen < MinHistory
          THEN /\ race' = [pc |-> "returned", symbol |-> sym, hlen |-> hlen,
                           source |-> "insufficient_data", result |-> "zeros"]
               /\ UNCHANGED <<task, will>>
          ELSE /\ WillAllowed(w)
               /\ race' = [pc |-> "waiting", symbol |-> sym, hlen |-> hlen,
                           source |-> "", result |-> ""]
               /\ task' = [b \in Backends |-> "running"]
               /\ will' = w
    /\ UNCHANGED <<trt_available, notRace>>

\* What TensorRTClient.available holds once its call has delivered `outcome`:
\* a forecast needs a passed probe; an empty result follows a failed probe
\* or a failed request after a passed one.
AvailableAfter(outcome) ==
    IF trt_available # "none" THEN {trt_available}
    ELSE IF outcome = "forecast" THEN {"true"} ELSE {"true", "false"}

\* What it holds when the call is cancelled: the probe may have passed.
AvailableWhenCancelled ==
    IF trt_available # "none" THEN {trt_available} ELSE {"none", "true"}

\* A backend call runs to its end.  A late call ends only after the 3.0 s,
\* so not while get_dual_forecast still waits for it.
BackendCompletes(b) ==
    /\ task[b] = "running"
    /\ will[b].late => race.pc # "waiting"
    /\ task' = [task EXCEPT ![b] = "done"]
    /\ IF b = "tensorrt"
       THEN trt_available' \in AvailableAfter(will[b].outcome)
       ELSE UNCHANGED trt_available
    /\ UNCHANGED <<race, will, nraces, notRace>>

\* "for task in pending: task.cancel()"
CancelPending(t) == [b \in Backends |-> IF t[b] = "running" THEN "cancelled" ELSE t[b]]

\* asyncio.wait returns with a non-empty done set; "done.pop().result()" takes
\* any one of the completed tasks.
WaitWakes ==
    /\ race.pc = "waiting"
    /\ \E winner \in {b \in Backends : task[b] = "done"} :
          LET outcome == will[winner].outcome
          IN  race' = IF WellFormed(outcome)
                      THEN [race EXCEPT !.pc = "returned", !.source = "ml_service",
                                        !.result = outcome]
                      ELSE [race EXCEPT !.pc = "returned", !.source = "fallback",
                                        !.result = "zeros"]
    /\ task' = CancelPending(task)
    /\ IF task["tensorrt"] = "running"
       THEN trt_available' \in AvailableWhenCancelled
       ELSE UNCHANGED trt_available
    /\ UNCHANGED <<will, nraces, notRace>>

\* asyncio.wait's timeout=3.0 passes with no task done.
WaitTimeout ==
    /\ race.pc = "waiting"
    /\ \A b \in Backends : task[b] = "running" /\ will[b].late
    /\ race' = [race EXCEPT !.pc = "returned", !.source = "fallback", !.result = "zeros"]
    /\ task' = CancelPending(task)
    /\ trt_available' \in AvailableWhenCancelled
    /\ UNCHANGED <<will, nraces, notRace>>

\* get_enhanced_analysis: wait_for(gather(...), timeout=4.0) times out and
\* cancels get_dual_forecast at its await; CancelledError is no Exception, so
\* it leaves the function past both except clauses.
CallerTimeout ==
    /\ race.pc = "waiting"
    /\ race' = [race EXCEPT !.pc = "cancelled"]
    /\ UNCHANGED <<task, will, trt_available, nraces, notRace>>

\* The caller goes on; the next call can be made.
RaceEnds ==
    /\ race.pc \in {"returned", "cancelled"}
    /\ \A b \in Backends : task[b] # "running"
    /\ race' = RaceIdle
    /\ task' = [b \in Backends |-> "none"]
    /\ will' = NoWill
    /\ UNCHANGED <<trt_available, nraces, notRace>>

RaceNext ==
    \/ RaceStart
    \/ \E b \in Backends : BackendCompletes(b)
    \/ WaitWakes
    \/ WaitTimeout
    \/ CallerTimeout
    \/ RaceEnds

Raced == race.pc = "returned" /\ race.hlen >= MinHistory

\* C2: with at least 10 history points, get_dual_forecast returns a backend's
\* result (not the fallback) whenever at least one of the two backend calls
\* produces a non-empty forecast within the 3-second bound.
C2_BackendResultWins ==
    (Raced /\ \E b \in Backends : will[b].outcome = "forecast" /\ ~will[b].late)
        => race.source = "ml_service"

\* C3: when every backend call fails or times out, the returned result has an
\* all-zero forecast and is tagged source = 'fallback'.
C3_FallbackWhenAllFail ==
    (Raced /\ \A b \in Backends : will[b].outcome # "forecast" \/ will[b].late)
        => (race.source = "fallback" /\ race.result = "zeros")

\* C4: whenever get_dual_forecast stops waiting (winner, 3 s bound, or the
\* caller's timeout), no backend task it started is left running.
C4_NoTaskLeftRunning ==
    race.pc \in {"returned", "cancelled"} =>
        \A b \in Backends : task[b] # "running"

(***************************************************************************)
(* strategy_engine/enhanced_strategy_service.py: process_signals_stream     *)
(* reading signals:global through the consumer group "strategy_consumers". *)
(* The group keeps, as Redis does, its last-delivered id and its pending   *)
(* entries list; reading with id '>' delivers only records after the       *)
(* last-delivered id.                                                      *)
(***************************************************************************)
\* Bounds: records appended to the signals stream, consumer restarts.
MaxSignals == 3
MaxRestarts == 1

\* "count=10" of xreadgroup
ReadCount == 10

\* The Signal.id values producers put on the stream.
SignalIds == {"AAPL_100", "MSFT_100"}
Records == 1..MaxSignals

ConsStart(pid, created) ==
    [pc |-> "poll", pid |-> pid, batch |-> <<>>, order |-> 0, created |-> created]

ConsQuiet ==
    /\ stream = <<>>
    /\ last_delivered = 0
    /\ pel = {}
    /\ acked = {}
    /\ orders = <<>>
    /\ cons = ConsStart(1, 0)
    /\ handled = [m \in Records |-> "unprocessed"]
    /\ deliveries = [m \in Records |-> 0]

ConsInit == ConsQuiet

\* A producer appends a signal record (xadd to SIGNALS_STREAM).
SignalAppended ==
    /\ Len(stream) < MaxSignals
    /\ \E sid \in SignalIds : stream' = Append(stream, sid)
    /\ UNCHANGED <<last_delivered, pel, acked, orders, cons, handled, deliveries, notCons>>

\* The ids xreadgroup(group, consumer, {stream: from_id}, count) delivers:
\* with '>' the records after the group's last-delivered id.
NewRecords(from_id) ==
    {m \in 1..Len(stream) : m > from_id /\ m < from_id + 1 + ReadCount}

RECURSIVE Ascending(_)
Ascending(S) ==
    IF S = {} THEN <<>>
    ELSE LET m == CHOOSE x \in S : \A y \in S : x <= y
         IN  <<m>> \o Ascending(S \ {m})

\* "messages = self.redis_client.xreadgroup(..., {SIGNALS_STREAM: '>'}, count=10,
\* block=1000)" returns records; an empty read loops back to the same call.
XReadGroup ==
    /\ cons.pc = "poll"
    /\ LET got == NewRecords(last_delivered)
       IN  /\ got # {}
           /\ cons' = [cons EXCEPT !.pc = "decide", !.batch = Ascending(got)]
           /\ pel' = {e \in pel : e[1] \notin got} \cup {<<m, cons.pid>> : m \in got}
           /\ last_delivered' = Max2(last_delivered, CHOOSE x \in got : \A y \in got : x >= y)
           /\ deliveries' = [m \in Records |->
                                IF m \in got THEN deliveries[m] + 1 ELSE deliveries[m]]
    /\ UNCHANGED <<stream, acked, orders, handled, notCons>>

\* "order = await self.enhanced_decide_and_order(signal)": an order (BUY/SELL,
\* built by create_order with a fresh uuid4), None for a hold or a weak signal,
\* or None from its "except Exception" after an error in the decision step.
Decide ==
    /\ cons.pc = "decide"
    /\ LET m == Head(cons.batch)
       IN  \E r \in {"order", "hold", "error"} :
              /\ cons' = IF r = "order"
                         THEN [cons EXCEPT !.pc = "publish", !.order = cons.created + 1,
                                           !.created = @ + 1]
                         ELSE [cons EXCEPT !.pc = "ack", !.order = 0]
              /\ handled' = [handled EXCEPT ![m] =
                                IF r = "error" THEN "decide_error"
                                ELSE IF r = "hold" THEN "ok" ELSE "deciding"]
    /\ UNCHANGED <<stream, last_delivered, pel, acked, orders, deliveries, notCons>>

\* "await self.publish_order(order)": xadd to ORDERS_STREAM; a failure is
\* logged inside publish_order and not raised.
PublishOrder ==
    /\ cons.pc = "publish"
    /\ LET m == Head(cons.batch)
       IN  \E ok \in BOOLEAN :
              /\ orders' = IF ok
                           THEN Append(orders, [id |-> cons.order, signal |-> stream[m],
                                                record |-> m])
                           ELSE orders
              /\ handled' = [handled EXCEPT ![m] = IF ok THEN "ok" ELSE "publish_failed"]
    /\ cons' = [cons EXCEPT !.pc = "ack"]
    /\ UNCHANGED <<stream, last_delivered, pel, acked, deliveries, notCons>>

\* The step after the current record: the next of the batch, or the next read.
NextRecord(c) ==
    [c EXCEPT !.batch = Tail(@), !.order = 0,
              !.pc = IF Len(c.batch) > 1 THEN "decide" ELSE "poll"]

\* "self.redis_client.xack(SIGNALS_STREAM, self.consumer_group, msg_id)"; when
\* it raises, the record's "except Exception" logs and the loop goes on.
XAck ==
    /\ cons.pc = "ack"
    /\ LET m == Head(cons.batch)
       IN  \E ok \in BOOLEAN :
              /\ acked' = IF ok THEN acked \cup {m} ELSE acked
              /\ pel' = IF ok THEN {e \in pel : e[1] # m} ELSE pel
    /\ cons' = NextRecord(cons)
    /\ UNCHANGED <<stream, last_delivered, orders, handled, deliveries, notCons>>

\* The consumer process dies and is started again: a new pid, so a new
\* consumer name "strategy_<pid>"; initialize() finds the group (BUSYGROUP).
Restart ==
    /\ cons.pid <= MaxRestarts
    /\ cons' = ConsStart(cons.pid + 1, cons.created)
    /\ UNCHANGED <<stream, last_delivered, pel, acked, orders, handled, deliveries, notCons>>

ConsNext ==
    \/ SignalAppended
    \/ XReadGroup
    \/ Decide
    \/ PublishOrder
    \/ XAck
    \/ Restart

\* The consumer's loop keeps running: each of its steps is taken when it can be.
ConsFairness ==
    /\ WF_vars(XReadGroup)
    /\ WF_vars(Decide)
    /\ WF_vars(PublishOrder)
    /\ WF_vars(XAck)

InBatch(m) == \E k \in 1..Len(cons.batch) : cons.batch[k] = m
Pending(m) == \E e \in pel : e[1] = m

\* C5: a signal record is acknowledged only after it was processed
\* successfully: never when its decision step raised an error or when its
\* order could not be appended to the orders stream.
C5_AckOnlyAfterSuccess ==
    \A m \in acked : handled[m] \notin {"decide_error", "publish_failed"}

\* C6: a record that was delivered but never acknowledged (the consumer
\* crashed or the xack failed) is eventually delivered again.
C6_UnackedRedelivered ==
    \A m \in Records : (Pending(m) /\ ~InBatch(m)) ~> (deliveries[m] >= 2)

ScoreUnit == 20 * 2 * Milli * Milli

\* MIN_SIGNAL_THRESHOLD (in 1/Milli), MAX_POSITION_SIZE, base_size
MinSignalThresholdMilli == 300
MaxPositionSize == 1000
BaseSize == 100

\* "combined_score > 0.4", "combined_score < -0.4"
TradeThreshold == (4 * ScoreUnit) \div 10

FactorNames == {"signal_score", "forecast", "forecast_confidence", "sentiment",
                "sma_trend", "rsi_filter", "pattern_strength", "ml_confidence"}

\* The weights of calculate_combined_score, in units of 1/20.
Weights ==
    [signal_score |-> 5, forecast |-> 4, forecast_confidence |-> 3,
     sentiment |-> 3, sma_trend |-> 2, rsi_filter |-> 1,
     pattern_strength |-> 1, ml_confidence |-> 1]

RECURSIVE WeightedSum(_, _)
WeightedSum(factors, names) ==
    IF names = {} THEN 0
    ELSE LET f == CHOOSE x \in names : TRUE
         IN  factors[f] * Weights[f] + WeightedSum(factors, names \ {f})

\* "combined" before normalisation: the weighted sum times
\* (0.5 + ml_confidence * 0.5), in units of 1/ScoreUnit.
RawCombined(factors) ==
    WeightedSum(factors, FactorNames) * (Milli + factors.ml_confidence)

ClampCombinedUpperOnly(combined) == Min2(ScoreUnit, combined)

\* "return max(-1.0, min(1.0, combined))"
ClampCombined(combined) == Max2(0 - ScoreUnit, Min2(ScoreUnit, combined))

CalculateCombinedScore(factors) == ClampCombined(RawCombined(factors))

\* calculate_rsi_filter, in 1/Milli ("rsi14 = ... or 50.0" is applied by the caller)
CalculateRsiFilter(rsi14) ==
    IF rsi14 = 0 THEN 0
    ELSE IF rsi14 > 70 THEN 0 - 500
    ELSE IF rsi14 < 30 THEN 500
    ELSE 0

\* calculate_position_size: int(base_size * (0.5 + confidence * 1.5) * volatility_adj)
\* limited to 1..MAX_POSITION_SIZE.  With a = ScoreUnit + 3 * confidence the
\* product is a * price / (d * (price + atr14)) for d = 2 * ScoreUnit / base_size;
\* it is computed in two parts to stay inside 32-bit integers.
\* max_position_size is the module's MAX_POSITION_SIZE, int() of the
\* environment variable.
CalculatePositionSizeWith(combined_score, ml_confidence, atr14, current_price, max_position_size) ==
    LET confidence == Min2(Abs(combined_score), ml_confidence * (ScoreUnit \div Milli))
        a == ScoreUnit + 3 * confidence
        d == (2 * ScoreUnit) \div BaseSize
        q == a \div d
        r == a % d
        position_size ==
            IF a <= 0 THEN 0
            ELSE IF current_price > 0
            THEN (q * current_price + (r * current_price) \div d)
                     \div (current_price + atr14)
            ELSE q
    IN  Max2(1, Min2(position_size, max_position_size))

\* calculate_position_size under the default MAX_POSITION_SIZE
CalculatePositionSize(combined_score, ml_confidence, atr14, current_price) ==
    CalculatePositionSizeWith(combined_score, ml_confidence, atr14, current_price,
                              MaxPositionSize)

SideOfInclusive(combined_score) ==
    IF combined_score >= TradeThreshold THEN "BUY"
    ELSE IF combined_score <= 0 - TradeThreshold THEN "SELL"
    ELSE "NONE"

\* "if combined_score > 0.4 ... elif combined_score < -0.4 ... else return None"
SideOf(combined_score) ==
    IF combined_score > TradeThreshold THEN "BUY"
    ELSE IF combined_score < 0 - TradeThreshold THEN "SELL"
    ELSE "NONE"

\* Factor values handed to calculate_combined_score directly (any numbers).
DirectFactors ==
    [signal_score : {0 - 2000, 0 - 500, 1000},
     forecast : {0 - 3000, 0, 3000},
     forecast_confidence : {0, 1000},
     sentiment : {0 - 1000, 1000},
     sma_trend : {0 - 1000, 1000},
     rsi_filter : {0 - 500, 500},
     pattern_strength : {0, 5000},
     ml_confidence : {0 - 3000, 0, 1000, 3000}]

\* A signal read from the stream and what the services answer for it:
\* symbol ("" is a missing symbol), score, whether meta is a mapping with a
\* numeric price, meta.price and meta.volume, calculator.rsi and
\* calculator.atr (0: None), the SMA trend factor, whether the price history
\* has 10 points, and the ML analysis (forecast, its confidence, sentiment).
DecideInputs ==
    [symbol : {"", "AAPL"},
     score : {0 - 1000, 200, 500, 1000},
     meta_ok : BOOLEAN,
     price : {0, 100},
     volume : {0, 1000},
     rsi : {0, 20, 80},
     sma_trend : {0 - 1000, 0, 1000},
     atr : {0, 5},
     history_ok : BOOLEAN,
     forecast : {0 - 1000, 0, 100 * Milli},
     forecast_confidence : {0, 1000},
     sentiment : {0 - 1000, 0, 500}]

NoFactors == [f \in FactorNames |-> 0]

NoDecision ==
    [kind |-> "pending", why |-> "", computed |-> FALSE, combined_score |-> 0,
     side |-> "NONE", qty |-> 0, factors |-> NoFactors]

\* get_enhanced_analysis: combined_confidence =
\* (forecast_conf + min(abs(sentiment) * 2, 1.0)) / 2; without 10 points of
\* history the handler uses an all-zero analysis instead.
MlAnalysis(in) ==
    IF in.history_ok
    THEN [forecast |-> in.forecast,
          forecast_confidence |-> in.forecast_confidence,
          sentiment |-> in.sentiment,
          combined_confidence |->
              (in.forecast_confidence + Min2(Abs(in.sentiment) * 2, Milli)) \div 2]
    ELSE [forecast |-> 0, forecast_confidence |-> 0, sentiment |-> 0,
          combined_confidence |-> 0]

\* calculate_decision_factors
CalculateDecisionFactors(in) ==
    LET ml == MlAnalysis(in)
    IN  [signal_score |-> in.score,
         forecast |-> ml.forecast,
         forecast_confidence |-> ml.forecast_confidence,
         sentiment |-> ml.sentiment,
         sma_trend |-> in.sma_trend,
         rsi_filter |-> CalculateRsiFilter(IF in.rsi = 0 THEN 50 ELSE in.rsi),
         pattern_strength |-> in.volume,
         ml_confidence |-> ml.combined_confidence]

\* enhanced_decide_and_order for one signal.
EnhancedDecideAndOrderResult(in) ==
    IF in.symbol = ""
    THEN [NoDecision EXCEPT !.kind = "none", !.why = "invalid_symbol"]
    ELSE IF Abs(in.score) < MinSignalThresholdMilli
    THEN [NoDecision EXCEPT !.kind = "none", !.why = "weak"]
    ELSE IF ~in.meta_ok
    THEN [NoDecision EXCEPT !.kind = "none", !.why = "error"]
    ELSE LET factors == CalculateDecisionFactors(in)
             combined_score == CalculateCombinedScore(factors)
             position_size ==
                 CalculatePositionSize(combined_score, factors.ml_confidence,
                                       IF in.atr = 0 THEN 1 ELSE in.atr, in.price)
             side == SideOf(combined_score)
         IN  IF side = "NONE"
             THEN [kind |-> "none", why |-> "hold", computed |-> TRUE,
                   combined_score |-> combined_score, side |-> side, qty |-> 0,
                   factors |-> factors]
             ELSE [kind |-> "order", why |-> "", computed |-> TRUE,
                   combined_score |-> combined_score, side |-> side,
                   qty |-> position_size, factors |-> factors]

DecQuiet ==
    /\ calc = [pc |-> "idle", factors |-> NoFactors, raw |-> 0, result |-> 0]
    /\ dec = [pc |-> "idle", in |-> CHOOSE in \in DecideInputs : TRUE,
              out |-> NoDecision]

\* Either a call of calculate_combined_score or a signal for the handler is due.
DecInit ==
    \/ /\ \E factors \in DirectFactors :
             calc = [pc |-> "called", factors |-> factors, raw |-> 0, result |-> 0]
       /\ dec = [pc |-> "idle", in |-> CHOOSE in \in DecideInputs : TRUE,
                 out |-> NoDecision]
    \/ /\ calc = [pc |-> "idle", factors |-> NoFactors, raw |-> 0, result |-> 0]
       /\ \E in \in DecideInputs :
             dec = [pc |-> "called", in |-> in, out |-> NoDecision]

CombinedScoreCalled ==
    /\ calc.pc = "called"
    /\ calc' = [calc EXCEPT !.pc = "done",
                            !.raw = RawCombined(calc.factors),
                            !.result = CalculateCombinedScore(calc.factors)]
    /\ UNCHANGED <<dec, notDec>>

EnhancedDecideAndOrder ==
    /\ dec.pc = "called"
    /\ dec' = [dec EXCEPT !.pc = "done", !.out = EnhancedDecideAndOrderResult(dec.in)]
    /\ UNCHANGED <<calc, notDec>>

DecNext ==
    \/ CombinedScoreCalled
    \/ EnhancedDecideAndOrder

\* C11: calculate_combined_score returns a value in [-1, 1] for all factor
\* values, so the combined_score of every order lies in [-1, 1].
C11_CombinedScoreClamped ==
    /\ calc.pc = "done" =>
           (0 - ScoreUnit <= calc.result /\ calc.result <= ScoreUnit)
    /\ dec.out.kind = "order" =>
           (0 - ScoreUnit <= dec.out.combined_score
            /\ dec.out.combined_score <= ScoreUnit)

\* A call whose weighted sum lies below -1 and came back clamped.
C11_Witness ==
    calc.pc = "done" /\ calc.raw < 0 - ScoreUnit /\ calc.result = 0 - ScoreUnit

\* C12: for a signal that passes the weak-signal filter and whose combined
\* score was computed, the handler returns a BUY order exactly when the
\* score is above 0.4, a SELL order exactly when it is below -0.4, and no
\* order when it lies in [-0.4, 0.4].
C12_ThresholdDecision ==
    (dec.pc = "done" /\ dec.out.computed) =>
        LET s == dec.out.combined_score
        IN  /\ (dec.out.kind = "order" /\ dec.out.side = "BUY") <=> s > TradeThreshold
            /\ (dec.out.kind = "order" /\ dec.out.side = "SELL") <=> s < 0 - TradeThreshold
            /\ dec.out.kind = "none" <=>
                   (0 - TradeThreshold <= s /\ s <= TradeThreshold)

\* A signal whose combined score is exactly 0.4: no order.
C12_Witness ==
    /\ dec.pc = "done" /\ dec.out.computed
    /\ dec.out.combined_score = TradeThreshold
    /\ dec.out.kind = "none"

(***************************************************************************)
(* pattern_engine/partitioning.py: bin_pack_symbols and                    *)
(* select_partition_symbols, and the shards that call the latter at start  *)
(* (generate_mock_ticks).  Lists are sequences; weights are in units of    *)
(* 1/WScale (0.0001) and a weight map is a function on the symbols that    *)
(* have a weight.                                                          *)
(***************************************************************************)
WScale == 100 * 100

\* Bounds of the model.
MaxPartitions == 2
MaxIndex == 1
MaxSymbols == 3

PackSymbols == {"AAPL", "MSFT", "TSLA"}
PackWeightValues == {0 - WScale, 0, 3 * WScale}
FleetSymbols == {"aapl", "AAPL", "MSFT"}
FleetWeightValues == {0, 3 * WScale}
HotLists == {<<>>, <<"AAPL">>, <<"MSFT", "AAPL">>, <<"AAPL", "AAPL">>, <<"aapl">>}
PartitionCounts == 0..MaxPartitions
Indexes == (0 - 1)..MaxIndex

SeqsUpTo(S, lo, hi) == UNION {[1..n -> S] : n \in lo..hi}
WeightMaps(S, W) == UNION {[D -> W] : D \in SUBSET S}

\* s.upper()
Upper(s) == IF s = "aapl" THEN "AAPL" ELSE s

\* weights.get(s, 1.0)
WeightOf(weights, s) == IF s \in DOMAIN weights THEN weights[s] ELSE WScale

\* Where x goes in a list already sorted by descending weight: behind every
\* entry whose weight is not smaller (sorted(..., reverse=True) is stable).
RECURSIVE InsertByWeight(_, _, _)
InsertByWeight(x, sorted, weights) ==
    IF sorted = <<>> THEN <<x>>
    ELSE IF WeightOf(weights, Head(sorted)) >= WeightOf(weights, x)
    THEN <<Head(sorted)>> \o InsertByWeight(x, Tail(sorted), weights)
    ELSE <<x>> \o sorted

\* sorted(symbols, key=lambda s: weights.get(s, 1.0), reverse=True)
RECURSIVE SortedByWeight(_, _)
SortedByWeight(symbols, weights) ==
    IF symbols = <<>> THEN <<>>
    ELSE InsertByWeight(symbols[Len(symbols)],
                        SortedByWeight(SubSeq(symbols, 1, Len(symbols) - 1), weights),
                        weights)

LightestBinLast(bin_weights) ==
    CHOOSE i \in 1..Len(bin_weights) :
        /\ \A j \in 1..Len(bin_weights) : bin_weights[i] <= bin_weights[j]
        /\ \A j \in (i + 1)..Len(bin_weights) : bin_weights[j] > bin_weights[i]

\* min(range(partitions), key=lambda i: bin_weights[i]): the first lightest bin
LightestBin(bin_weights) ==
    CHOOSE i \in 1..Len(bin_weights) :
        /\ \A j \in 1..Len(bin_weights) : bin_weights[i] <= bin_weights[j]
        /\ \A j \in 1..(i - 1) : bin_weights[j] > bin_weights[i]

BinIncrementRaw(w) == w

\* max(0.0001, weights.get(sym, 1.0))
BinIncrement(w) == Max2(1, w)

\* The loop of bin_pack_symbols over the sorted symbols.
RECURSIVE Greedy(_, _, _, _)
Greedy(todo, weights, bins, bin_weights) ==
    IF todo = <<>> THEN bins
    ELSE LET sym == Head(todo)
             idx == LightestBin(bin_weights)
         IN  Greedy(Tail(todo), weights,
                    [bins EXCEPT ![idx] = Append(@, sym)],
                    [bin_weights EXCEPT ![idx] = @ + BinIncrement(WeightOf(weights, sym))])

SingleBinBelowOne(partitions) == partitions < 1

\* "if partitions <= 1"
SingleBin(partitions) == partitions <= 1

\* bin_pack_symbols
BinPackSymbols(symbols, weights, partitions) ==
    IF SingleBin(partitions)
    THEN <<symbols>>
    ELSE Greedy(SortedByWeight(symbols, weights), weights,
                [i \in 1..partitions |-> <<>>], [i \in 1..partitions |-> 0])

Members(seq) == {seq[i] : i \in 1..Len(seq)}

InRangeIndexUpperOnly(index, partitions) == index < partitions

\* "0 <= index < partitions"
InRangeIndex(index, partitions) == 0 <= index /\ index < partitions

\* bins[index] for a Python list (a negative index counts from the end)
ListItem(list, index) ==
    IF index >= 0 THEN list[index + 1] ELSE list[Len(list) + index + 1]

\* "symbols = [s.upper() for s in all_symbols]"
UpperAll(all_symbols) == [i \in 1..Len(all_symbols) |-> Upper(all_symbols[i])]

\* "hot + rest": the hot symbols that are in the universe, then the others
HotFirst(symbols, hot_symbols) ==
    LET InSymbols(s) == s \in Members(symbols)
        hot == SelectSeq(hot_symbols, InSymbols)
        NotHot(s) == s \notin Members(hot)
        rest == SelectSeq(symbols, NotHot)
    IN  hot \o rest

\* select_partition_symbols
SelectPartitionSymbols(all_symbols, weights, partitions, index, hot_symbols) ==
    LET symbols == UpperAll(all_symbols)
        bins == BinPackSymbols(HotFirst(symbols, hot_symbols), weights, partitions)
    IN  IF InRangeIndex(index, partitions) THEN ListItem(bins, index) ELSE symbols

NoPack == [pc |-> "idle", symbols |-> <<>>, weights |-> <<>>, partitions |-> 1,
           bins |-> <<>>]
NoFleet == [all_symbols |-> <<>>, weights |-> <<>>, partitions |-> 1,
            hot_symbols |-> <<>>]

PartQuiet ==
    /\ pack = NoPack
    /\ fleet = NoFleet
    /\ started = {}
    /\ served = [i \in Indexes |-> <<>>]

\* Either bin_pack_symbols is called on a list, or a fleet of shards is
\* configured with one symbol universe, weight map, hot list and partition
\* count.
PartInit ==
    /\ \/ /\ \E symbols \in SeqsUpTo(PackSymbols, 1, MaxSymbols),
                weights \in WeightMaps(PackSymbols, PackWeightValues),
                partitions \in PartitionCounts :
                 pack = [pc |-> "called", symbols |-> symbols, weights |-> weights,
                         partitions |-> partitions, bins |-> <<>>]
          /\ fleet = NoFleet
       \/ /\ pack = NoPack
          /\ \E all_symbols \in SeqsUpTo(FleetSymbols, 2, MaxSymbols),
                weights \in WeightMaps({"AAPL", "MSFT"}, FleetWeightValues),
                partitions \in PartitionCounts,
                hot_symbols \in HotLists :
                 fleet = [all_symbols |-> all_symbols, weights |-> weights,
                          partitions |-> partitions, hot_symbols |-> hot_symbols]
    /\ started = {}
    /\ served = [i \in Indexes |-> <<>>]

BinPackCalled ==
    /\ pack.pc = "called"
    /\ pack' = [pack EXCEPT !.pc = "done",
                            !.bins = BinPackSymbols(pack.symbols, pack.weights,
                                                    pack.partitions)]
    /\ UNCHANGED <<fleet, started, served, notPart>>

\* A shard with PARTITION_INDEX = index starts and selects its symbols.
ShardStarts(index) ==
    /\ fleet # NoFleet
    /\ index \notin started
    /\ started' = started \cup {index}
    /\ served' = [served EXCEPT ![index] =
                      SelectPartitionSymbols(fleet.all_symbols, fleet.weights,
                                             fleet.partitions, index,
                                             fleet.hot_symbols)]
    /\ UNCHANGED <<pack, fleet, notPart>>

PartNext ==
    \/ BinPackCalled
    \/ \E index \in Indexes : ShardStarts(index)

\* C15: with partitions <= 1, bin_pack_symbols returns exactly one bin, the
\* input list itself, for every non-empty symbol list and any weights.
C15_SinglePartitionOneBin ==
    (pack.pc = "done" /\ pack.partitions <= 1 /\ pack.symbols # <<>>) =>
        pack.bins = <<pack.symbols>>

\* Three symbols with weights that would reorder them, packed with one partition.
C15_Witness ==
    /\ pack.pc = "done" /\ pack.partitions = 1
    /\ Len(pack.symbols) = MaxSymbols
    /\ SortedByWeight(pack.symbols, pack.weights) # pack.symbols
    /\ pack.bins = <<pack.symbols>>

\* C16: for P >= 2 partitions and a list of at least P symbols, each of the
\* P bins returned by bin_pack_symbols is non-empty, whatever the weights
\* (missing, zero or negative ones included).
C16_NoEmptyBin ==
    (pack.pc = "done" /\ pack.partitions >= 2
     /\ Len(pack.symbols) >= pack.partitions) =>
        /\ Len(pack.bins) = pack.partitions
        /\ \A b \in 1..Len(pack.bins) : pack.bins[b] # <<>>

\* A list with a negative, a zero and a missing weight, packed into the
\* largest number of bins.
C16_Witness ==
    /\ pack.pc = "done" /\ pack.partitions = MaxPartitions
    /\ Len(pack.symbols) = MaxSymbols
    /\ \E i, j, k \in 1..Len(pack.symbols) :
          /\ pack.symbols[k] \notin DOMAIN pack.weights
          /\ pack.symbols[i] \in DOMAIN pack.weights /\ pack.weights[pack.symbols[i]] < 0
          /\ pack.symbols[j] \in DOMAIN pack.weights /\ pack.weights[pack.symbols[j]] = 0
    /\ \A b \in 1..Len(pack.bins) : pack.bins[b] # <<>>

\* C17: select_partition_symbols returns the whole upper-cased universe when
\* the index is outside [0, partitions) and the bin at the index otherwise.
C17_OutOfRangeServesAll ==
    \A index \in started :
        LET symbols == UpperAll(fleet.all_symbols)
            bins == BinPackSymbols(HotFirst(symbols, fleet.hot_symbols),
                                   fleet.weights, fleet.partitions)
        IN  IF 0 <= index /\ index < fleet.partitions
            THEN served[index] = bins[index + 1]
            ELSE served[index] = symbols

C17_Witness ==
    /\ (0 - 1) \in started /\ 1 \in started
    /\ fleet.partitions = 2
    /\ served[0 - 1] = UpperAll(fleet.all_symbols)
    /\ Len(served[1]) < Len(fleet.all_symbols)

\* C18: shards started with the same universe, weights, hot list and
\* partition count and with distinct indexes serve disjoint symbol sets: no
\* symbol has two shards updating its SymbolState.  Stated for the shards
\* whose index lies inside [0, partitions), which serve a bin.
C18_OneShardPerSymbol ==
    \A i, j \in started :
        (i # j /\ 0 <= i /\ i < fleet.partitions /\ 0 <= j /\ j < fleet.partitions)
            => Members(served[i]) \cap Members(served[j]) = {}

\* C38: for P >= 2 and a universe whose symbols are distinct, the bins served
\* to the indexes 0..P-1 hold symbols of the universe only and every symbol
\* of the universe exactly once, whatever the hot list.
C38_BinsPartitionUniverse ==
    LET P == fleet.partitions
        universe == {Upper(fleet.all_symbols[i]) : i \in 1..Len(fleet.all_symbols)}
        Places(x) == {p \in (0..(P - 1)) \X (1..MaxSymbols * 2) :
                         /\ p[2] <= Len(served[p[1]])
                         /\ served[p[1]][p[2]] = x}
    IN  (/\ P >= 2
         /\ \A i \in 0..(P - 1) : i \in started
         /\ Cardinality(universe) = Len(fleet.all_symbols)) =>
            /\ \A x \in universe : Cardinality(Places(x)) = 1
            /\ \A i \in 0..(P - 1) : \A k \in 1..Len(served[i]) :
                   served[i][k] \in universe

\* The place of input position i in the order of placement: behind every
\* position with a larger weight and every earlier position of equal weight.
PlacementRank(symbols, weights, i) ==
    1 + Cardinality({j \in 1..Len(symbols) :
          \/ WeightOf(weights, symbols[j]) > WeightOf(weights, symbols[i])
          \/ /\ WeightOf(weights, symbols[j]) = WeightOf(weights, symbols[i])
             /\ j < i})

PlacementOrder(symbols, weights) ==
    [k \in 1..Len(symbols) |->
        symbols[CHOOSE i \in 1..Len(symbols) : PlacementRank(symbols, weights, i) = k]]

\* The bins after placing order[k..]: each symbol into the bin of smallest
\* total, the lowest index among equals.
RECURSIVE PlacedFrom(_, _, _, _, _)
PlacedFrom(order, weights, k, bins, totals) ==
    IF k > Len(order) THEN bins
    ELSE LET P == Len(totals)
             idx == CHOOSE i \in 1..P :
                        \A j \in 1..P : \/ totals[i] < totals[j]
                                        \/ totals[i] = totals[j] /\ i <= j
             w == WeightOf(weights, order[k])
         IN  PlacedFrom(order, weights, k + 1,
                        [bins EXCEPT ![idx] = Append(@, order[k])],
                        [totals EXCEPT ![idx] = @ + (IF w < 1 THEN 1 ELSE w)])

\* C31: with P >= 2, bin_pack_symbols places the symbols in descending
\* weight order, equal weights in input order, each into the bin whose
\* accumulated weight is smallest, the lowest index among equally light
\* bins; in a shard's bin no hot symbol stands behind another symbol of the
\* same weight that is not hot.
C31_GreedyLightestLowestIndex ==
    /\ (pack.pc = "done" /\ pack.partitions >= 2) =>
           pack.bins = PlacedFrom(PlacementOrder(pack.symbols, pack.weights),
                                  pack.weights, 1,
                                  [i \in 1..pack.partitions |-> <<>>],
                                  [i \in 1..pack.partitions |-> 0])
    /\ \A index \in started :
           (fleet.partitions >= 2 /\ 0 <= index /\ index < fleet.partitions) =>
               LET universe == {Upper(fleet.all_symbols[i]) :
                                    i \in 1..Len(fleet.all_symbols)}
                   IsHot(x) == /\ x \in universe
                               /\ \E i \in 1..Len(fleet.hot_symbols) :
                                      fleet.hot_symbols[i] = x
                   bin == served[index]
               IN  \A a, b \in 1..Len(bin) :
                       (a < b /\ IsHot(bin[b]) /\ ~IsHot(bin[a])) =>
                           WeightOf(fleet.weights, bin[a])
                               # WeightOf(fleet.weights, bin[b])

\* Three symbols, two distinct ones of equal weight behind a lighter first
\* one, packed into two bins: the order changes and the first placement
\* meets equally light bins.
C31_Witness ==
    /\ pack.pc = "done" /\ pack.partitions = 2
    /\ Len(pack.symbols) = MaxSymbols
    /\ pack.symbols[2] # pack.symbols[3]
    /\ WeightOf(pack.weights, pack.symbols[2]) = WeightOf(pack.weights, pack.symbols[3])
    /\ WeightOf(pack.weights, pack.symbols[1]) < WeightOf(pack.weights, pack.symbols[2])
    /\ pack.bins[1] = <<pack.symbols[2], pack.symbols[1]>>
    /\ pack.bins[2] = <<pack.symbols[3]>>

(***************************************************************************)
(* pattern_engine/runner.py: run_replay over the rows csv.reader yields.   *)
(* A row is the list of its fields.                                        *)
(***************************************************************************)
\* Bound: rows in the replayed file.
MaxRows == 3

\* A well-formed tick, an empty line, rows with three and five fields, a
\* header row, and a tick whose volume is not a number.
ReplayRows ==
    {<<"1", "AAPL", "150.5", "10">>,
     <<>>,
     <<"1", "AAPL", "150.5">>,
     <<"1", "AAPL", "150.5", "10", "x">>,
     <<"ts", "symbol", "price", "volume">>,
     <<"1", "MSFT", "380", "abc">>}

\* float(s) returns for these strings and raises ValueError for the others.
IsFloat(s) == s \in {"1", "10", "150.5", "380"}

\* "ts, sym, price, vol = row" raises ValueError unless the row has four fields.
Unpacks(row) == Len(row) = 4

\* What one pass of the loop body does with a row: the row is skipped with
\* a warning, a line is printed for it, or float() raises out of the loop.
RowOutcome(row) ==
    IF ~Unpacks(row) THEN "skipped"
    ELSE IF ~IsFloat(row[3]) \/ ~IsFloat(row[4]) THEN "raised"
    ELSE "printed"

NoReplay ==
    [pc |-> "idle", rows |-> <<>>, pos |-> 1, printed |-> {}, warned |-> {},
     states |-> {}]

ReplayQuiet == replay = NoReplay

\* run_replay is called on a file of 1..MaxRows rows.
ReplayInit ==
    \E rows \in SeqsUpTo(ReplayRows, 1, MaxRows) :
        replay = [NoReplay EXCEPT !.pc = "running", !.rows = rows]

\* One pass of "for row in reader" (a failing model call falls back to the
\* stub inside the body and the line is printed all the same).
ReplayRow ==
    /\ replay.pc = "running"
    /\ replay.pos <= Len(replay.rows)
    /\ LET row == replay.rows[replay.pos]
           o == RowOutcome(row)
       IN  replay' =
             IF o = "skipped"
             THEN [replay EXCEPT !.pos = @ + 1, !.warned = @ \cup {replay.pos}]
             ELSE IF o = "raised"
             THEN [replay EXCEPT !.pc = "raised"]
             ELSE [replay EXCEPT !.pos = @ + 1, !.printed = @ \cup {replay.pos},
                                 !.states = @ \cup {row[2]}]
    /\ UNCHANGED notReplay

\* The reader is exhausted: run_replay returns.
ReplayEnds ==
    /\ replay.pc = "running"
    /\ replay.pos > Len(replay.rows)
    /\ replay' = [replay EXCEPT !.pc = "done"]
    /\ UNCHANGED notReplay

ReplayNext ==
    \/ ReplayRow
    \/ ReplayEnds

\* C20: run_replay skips every unparseable row (wrong number of fields, or
\* a price or volume that is not a number) with a warning and processes the
\* rows that follow: no malformed row ends the replay.
C20_MalformedRowsSkipped ==
    /\ replay.pc # "raised"
    /\ replay.pc = "done" =>
          \A i \in 1..Len(replay.rows) :
              LET row == replay.rows[i]
                  parseable == Len(row) = 4 /\ IsFloat(row[3]) /\ IsFloat(row[4])
              IN  IF parseable THEN i \in replay.printed ELSE i \in replay.warned

(***************************************************************************)
(* pattern_engine: where a configured EMA alpha is validated.              *)
(* PatternDetector.__init__ builds no indicator; a SymbolState, and with   *)
(* it EMA(cfg.volume_ema_alpha), is built by the tick loop on a symbol's   *)
(* first tick.  EMA.__init__ checks alpha with an assert statement, which  *)
(* an interpreter started with -O does not execute.  Alphas are in units   *)
(* of 1/Milli.                                                             *)
(***************************************************************************)
\* Bound: ticks processed after startup.
MaxBootTicks == 3

\* cfg.volume_ema_alpha default, in 1/Milli
VolumeEmaAlphaDefault == 100

\* Values VOLUME_EMA_ALPHA can be set to (_env_float accepts any float).
Alphas == {0 - 100, 0, 1, VolumeEmaAlphaDefault, Milli, Milli + 1, 2 * Milli}

BootSymbols == {"AAPL", "GOOGL", "MSFT"}

\* "assert 0.0 < alpha <= 1.0"
ValidAlpha(alpha) == 0 < alpha /\ alpha <= Milli

\* EMA.__init__ raises AssertionError for this alpha.
EMARejects(alpha, optimized) == ~optimized /\ ~ValidAlpha(alpha)

BootQuiet ==
    boot = [pc |-> "new", alpha |-> VolumeEmaAlphaDefault, optimized |-> FALSE,
            states |-> {}, nticks |-> 0]

\* The process starts with some VOLUME_EMA_ALPHA, with or without -O.
BootInit ==
    \E alpha \in Alphas, optimized \in BOOLEAN :
        boot = [pc |-> "new", alpha |-> alpha, optimized |-> optimized,
                states |-> {}, nticks |-> 0]

\* main: detector = PatternDetector(); __init__ creates the redis client and
\* an empty symbol_states dict and looks at no alpha.
DetectorConstructed ==
    /\ boot.pc = "new"
    /\ boot' = [boot EXCEPT !.pc = "running"]
    /\ UNCHANGED notBoot

\* The tick loop handles a tick of symbol s: on the symbol's first tick it
\* builds SymbolState(s), whose EMA(cfg.volume_ema_alpha) may raise.
BootTick(s) ==
    /\ boot.pc = "running"
    /\ boot.nticks < MaxBootTicks
    /\ boot' = IF s \notin boot.states /\ EMARejects(boot.alpha, boot.optimized)
               THEN [boot EXCEPT !.pc = "tick_failed"]
               ELSE [boot EXCEPT !.states = @ \cup {s}, !.nticks = @ + 1]
    /\ UNCHANGED notBoot

BootNext ==
    \/ DetectorConstructed
    \/ \E s \in BootSymbols : BootTick(s)

\* C21: an EMA alpha outside (0, 1] is rejected when the detector is
\* constructed, before any tick is processed: the tick loop never runs with
\* it and it never fails a tick.
C21_AlphaRejectedAtStartup ==
    ~ValidAlpha(boot.alpha) => boot.pc \notin {"running", "tick_failed"}

(***************************************************************************)
(* pattern_engine/state.py: one EMA, VWAP or Welford object fed a sequence *)
(* of updates.  The inputs are whole multiples of units fine enough that   *)
(* the Welford divisions by count are exact; the object keeps the list of  *)
(* its inputs for comparison with the closed formulas.                     *)
(***************************************************************************)
\* Bound: updates fed to one object.
MaxUpdates == 4

\* 10.0, 12.0 and 20.0 in units of 1/400
EmaInputs == {10 * 400, 12 * 400, 20 * 400}
EmaTen == 10 * 400
EmaTwelve == 12 * 400
EmaEleven == 11 * 400
\* alpha as num/den: 0.05, 0.1, 0.5, 1.0
EmaAlphas == {<<1, 20>>, <<1, 10>>, <<1, 2>>, <<1, 1>>}

VwapPrices == {100, 110}
VwapVolumes == {0 - 10, 0, 10}

\* 1.0, 2.0, 3.0 and 4.0 in units of 1/60
WelfordInputs == {60, 2 * 60, 3 * 60, 4 * 60}

RECURSIVE SumSeq(_)
SumSeq(seq) == IF seq = <<>> THEN 0 ELSE Head(seq) + SumSeq(Tail(seq))

RECURSIVE SumSquares(_)
SumSquares(seq) ==
    IF seq = <<>> THEN 0 ELSE Head(seq) * Head(seq) + SumSquares(Tail(seq))

RECURSIVE SumPV(_)
SumPV(seq) == IF seq = <<>> THEN 0 ELSE Head(seq)[1] * Head(seq)[2] + SumPV(Tail(seq))

RECURSIVE SumV(_)
SumV(seq) == IF seq = <<>> THEN 0 ELSE Head(seq)[2] + SumV(Tail(seq))

\* EMA(alpha), VWAP() and Welford() as constructed.
NewEMA(num, den) ==
    [num |-> num, den |-> den, value |-> NoneVal, prev |-> NoneVal,
     hist |-> <<>>, ret |-> NoneVal]
NewVWAP == [acc |-> [pv |-> 0, volume |-> 0], hist |-> <<>>, ret |-> 0]
NewWelford ==
    [w |-> [count |-> 0, mean |-> 0, m2 |-> 0], hist |-> <<>>, variance |-> 0]

StateQuiet ==
    /\ unit = "none"
    /\ emaObj = NewEMA(1, 10)
    /\ vwapObj = NewVWAP
    /\ welfordObj = NewWelford

\* One object is under test; an EMA is built with some alpha in (0, 1].
StateInit ==
    /\ unit \in {"ema", "vwap", "welford"}
    /\ \E a \in EmaAlphas : emaObj = NewEMA(IF unit = "ema" THEN a[1] ELSE 1,
                                            IF unit = "ema" THEN a[2] ELSE 10)
    /\ vwapObj = NewVWAP
    /\ welfordObj = NewWelford

\* e.update(x)
EMAUpdateCalled ==
    /\ unit = "ema"
    /\ Len(emaObj.hist) < MaxUpdates
    /\ \E x \in EmaInputs :
          LET value == EMAUpdate(emaObj.value, emaObj.num, emaObj.den, x)
          IN  emaObj' = [emaObj EXCEPT !.value = value, !.prev = emaObj.value,
                                       !.hist = Append(@, x), !.ret = value]
    /\ UNCHANGED <<unit, vwapObj, welfordObj, notState>>

\* v.update(price, volume)
VWAPUpdateCalled ==
    /\ unit = "vwap"
    /\ Len(vwapObj.hist) < MaxUpdates
    /\ \E price \in VwapPrices, volume \in VwapVolumes :
          LET acc == VWAPAccumulate(vwapObj.acc, price, volume)
          IN  vwapObj' = [acc |-> acc, hist |-> Append(vwapObj.hist, <<price, volume>>),
                          ret |-> VWAPValue(acc.pv, acc.volume)]
    /\ UNCHANGED <<unit, emaObj, welfordObj, notState>>

\* w.update(x), then a read of w.variance
WelfordUpdateCalled ==
    /\ unit = "welford"
    /\ Len(welfordObj.hist) < MaxUpdates
    /\ \E x \in WelfordInputs :
          LET w == WelfordUpdate(welfordObj.w, x)
          IN  welfordObj' = [w |-> w, hist |-> Append(welfordObj.hist, x),
                             variance |-> WelfordVariance(w)]
    /\ UNCHANGED <<unit, emaObj, vwapObj, notState>>

StateNext ==
    \/ EMAUpdateCalled
    \/ VWAPUpdateCalled
    \/ WelfordUpdateCalled

\* C23: EMA.update returns its input unchanged on the first call, for every
\* alpha in (0, 1], and on every later call alpha * x + (1 - alpha) * previous
\* value (to the model's resolution); EMA(0.5) fed 10 then 12 returns 11.
C23_EmaRecurrence ==
    LET n == Len(emaObj.hist)
        x == emaObj.hist[n]
        exact == emaObj.num * x + (emaObj.den - emaObj.num) * emaObj.prev
    IN  /\ n = 1 => emaObj.ret = x
        /\ n > 1 => /\ emaObj.den * emaObj.ret <= exact
                    /\ exact < emaObj.den * (emaObj.ret + 1)
        /\ (emaObj.num = 1 /\ emaObj.den = 2 /\ emaObj.hist = <<EmaTen, EmaTwelve>>)
              => emaObj.ret = EmaEleven

\* EMA(0.1) fed 10 then 12: 10.2, not the value with the weights exchanged.
C23_Witness ==
    /\ emaObj.num = 1 /\ emaObj.den = 10
    /\ emaObj.hist = <<EmaTen, EmaTwelve>>
    /\ 10 * emaObj.ret = 102 * 400

\* C24: after any sequence of VWAP.update calls the returned value is the sum
\* of price * volume over all updates divided by the sum of volume over all
\* updates, and 0 whenever that cumulative volume is 0.
C24_VwapIsCumulativeRatio ==
    LET pv == SumPV(vwapObj.hist)
        v == SumV(vwapObj.hist)
    IN  vwapObj.hist # <<>> =>
            IF v = 0 THEN vwapObj.ret = 0 ELSE vwapObj.ret = pv \div v

\* 100 at volume 10, then 110 at volume 10: 105.
C24_Witness ==
    /\ vwapObj.hist = <<<<100, 10>>, <<110, 10>>>>
    /\ vwapObj.ret = 105

\* C25: after any sequence of Welford.update calls, count is the number of
\* updates, mean is the arithmetic mean of the inputs, and variance is the
\* sample variance M2 / (count - 1) for count >= 2 and 0 for count < 2.
C25_WelfordMoments ==
    LET n == Len(welfordObj.hist)
        sum == SumSeq(welfordObj.hist)
        w == welfordObj.w
    IN  /\ w.count = n
        /\ n > 0 => n * w.mean = sum
        /\ n > 0 => n * w.m2 = n * SumSquares(welfordObj.hist) - sum * sum
        /\ n < 2 => welfordObj.variance = 0
        /\ n >= 2 => welfordObj.variance = w.m2 \div (n - 1)

\* 1, 2, 3, 4: mean 2.5 and sample variance 5/3.
C25_Witness ==
    /\ welfordObj.hist = <<60, 2 * 60, 3 * 60, 4 * 60>>
    /\ welfordObj.w.mean = 150
    /\ 3 * welfordObj.variance = 5 * 60 * 60

(***************************************************************************)
(* Signal round trip: the dict update_and_detect returns is handed to      *)
(* redis_client.xadd as it is, and the strategy engine reads the signals   *)
(* stream through its consumer group with decode_responses=True.           *)
(* A Python value is a record [t, form, s, n]: t is its type; a str is a   *)
(* word s, a word followed by "_" and the integer n, or the text of the    *)
(* number n; a float is n in units of 1/Milli.  redis-py's xadd encodes    *)
(* each field value: a str is sent as it is, an int or float as its repr,  *)
(* and any other type raises DataError.                                    *)
(***************************************************************************)
\* Bound: records already on the signals stream when the detector starts.
MaxPrior == 1

RtSymbols == {"AAPL", "GOOGL", "MSFT"}
RtTimestamps == {30, 61, 62}
RtScores == {0 - 1000, 0 - 450, 450, 1000}
SignalPatterns ==
    {"ema_crossover", "vwap_deviation", "volume_spike", "volatility_breakout",
     "composite"}
SignalKeys == {"id", "symbol", "score", "pattern", "timestamp", "meta"}

PyStr(s) == [t |-> "str", form |-> "word", s |-> s, n |-> 0]
PyStrInt(s, n) == [t |-> "str", form |-> "word_int", s |-> s, n |-> n]
PyNumberText(n) == [t |-> "str", form |-> "number", s |-> "", n |-> n]
PyFloat(n) == [t |-> "float", form |-> "", s |-> "", n |-> n]
PyDict == [t |-> "dict", form |-> "", s |-> "", n |-> 0]

\* The dict update_and_detect returns: "meta" is a nested dict.
SignalDict(symbol, timestamp, score, pattern) ==
    [k \in SignalKeys |->
        CASE k = "id" -> PyStrInt(symbol, timestamp)
          [] k = "symbol" -> PyStr(symbol)
          [] k = "score" -> PyFloat(score)
          [] k = "pattern" -> PyStr(pattern)
          [] k = "timestamp" -> PyFloat(timestamp * Milli)
          [] OTHER -> PyDict]

\* A record some other client wrote with every field a string.
FlatRecords ==
    {[k \in SignalKeys \ {"meta"} |->
        CASE k = "id" -> PyStrInt("TEST", 1)
          [] k = "symbol" -> PyStr("TEST")
          [] k = "score" -> PyNumberText(score)
          [] k = "pattern" -> PyStr("composite")
          [] OTHER -> PyNumberText(Milli)] : score \in {450}}

\* redis-py Encoder.encode accepts bytes, str, int and float only.
Encodable == {"bytes", "str", "int", "float"}

XaddRaises(fields) == \E k \in DOMAIN fields : fields[k].t \notin Encodable

\* What xadd sends for a value it accepts; decode_responses=True hands the
\* consumer the same text back as a str.
XaddEncode(value) ==
    IF value.t \in {"int", "float"} THEN PyNumberText(value.n) ELSE value

\* float(text), as enhanced_decide_and_order converts the score field.
ParseFloat(value) ==
    IF value.t = "str" /\ value.form = "number" THEN PyFloat(value.n) ELSE value

RtNew(signal, prior) ==
    [pc |-> "emitted", signal |-> signal, stream |-> prior, logged |-> FALSE,
     delivered |-> 0, got |-> <<>>]

RtQuiet ==
    rt = RtNew(SignalDict("AAPL", 30, 450, "composite"), <<>>)

\* update_and_detect has returned a signal; the stream holds what other
\* clients appended before.
RtInit ==
    \E symbol \in RtSymbols, timestamp \in RtTimestamps, score \in RtScores,
       pattern \in SignalPatterns, prior \in SeqsUpTo(FlatRecords, 0, MaxPrior) :
        rt = RtNew(SignalDict(symbol, timestamp, score, pattern), prior)

\* generate_mock_ticks, "if signal:": one xadd of the signal dict inside a
\* try; an exception is logged as "Failed to publish signal".
PublishSignal ==
    /\ rt.pc = "emitted"
    /\ rt' = IF XaddRaises(rt.signal)
             THEN [rt EXCEPT !.pc = "handled", !.logged = TRUE]
             ELSE [rt EXCEPT !.pc = "handled",
                             !.stream = Append(@,
                                 [k \in DOMAIN rt.signal |->
                                     XaddEncode(rt.signal[k])])]
    /\ UNCHANGED notRt

\* process_signals_stream: xreadgroup with id '>' returns the records not
\* yet delivered to the group; each becomes signal = dict(fields).
ReadSignals ==
    /\ rt.delivered < Len(rt.stream)
    /\ rt' = [rt EXCEPT !.delivered = Len(rt.stream),
                        !.got = @ \o SubSeq(rt.stream, rt.delivered + 1,
                                            Len(rt.stream))]
    /\ UNCHANGED notRt

RtNext ==
    \/ PublishSignal
    \/ ReadSignals

\* C26: once the tick loop has published an emitted signal and the consumer
\* group has read the signals stream to its end, the consumer holds a record
\* whose id and symbol are the signal's and whose score converts to the
\* signal's score.
C26_SignalRoundTrip ==
    (rt.pc = "handled" /\ rt.delivered = Len(rt.stream)) =>
        \E i \in 1..Len(rt.got) :
            /\ rt.got[i]["id"] = rt.signal["id"]
            /\ rt.got[i]["symbol"] = rt.signal["symbol"]
            /\ ParseFloat(rt.got[i]["score"]) = rt.signal["score"]

(***************************************************************************)
(* strategy_engine: Calculator, the incremental indicator store.           *)
(* Prices are integers; sma, ema, rsi averages, Bollinger and ATR values   *)
(* are in units of 1/CalcScale, which makes every division by a period of  *)
(* Periods exact (the RSI value and the Bollinger deviation are rounded    *)
(* down).  A dict keyed by period is a set of tuples headed by the period; *)
(* a return value is <<>> for None and a tuple of numbers otherwise.       *)
(***************************************************************************)
\* Bound: the maxlen a Calculator is built with.
CalcMaxLen == 2
\* Bound: update calls in one run.
MaxCalcUpdates == 3

CalcScale == 6
CalcSymbols == {"T", "U"}
\* Ticks as <<price, whether high, low and close are given>>.
CalcTicks == {<<100, TRUE>>, <<102, FALSE>>}
Periods == 0..2
GetterOps == {"sma", "ema", "rsi", "bollinger", "atr"}

LastN(seq, n) == SubSeq(seq, Len(seq) - n + 1, Len(seq))

\* deque(maxlen).append: a full deque drops its oldest item.
DequeAppend(dq, x, maxlen) ==
    IF Len(dq) = maxlen THEN Append(Tail(dq), x) ELSE Append(dq, x)

\* SymbolState.__init__
NewCalcState ==
    [prices |-> <<>>, sum_prices |-> 0, ema |-> {}, rsi_cache |-> {},
     sumsq |-> <<>>, sum_sumsq |-> 0, highs |-> <<>>, lows |-> <<>>,
     closes |-> <<>>, atr_cache |-> {}, last_price |-> NoneVal]

\* self._states[sym] on the defaultdict: the state, created when missing.
StateOf(sts, sym) == IF sym \in DOMAIN sts THEN sts[sym] ELSE NewCalcState

PutState(sts, sym, st) ==
    [x \in DOMAIN sts \cup {sym} |-> IF x = sym THEN st ELSE sts[x]]

\* Calculator.update without the subtraction of the evicted price from the
\* running sums.
CalcUpdateKeepSums(st, price, hlc, maxlen) ==
    LET h == IF hlc THEN price + 1 ELSE price
        l == IF hlc THEN price - 1 ELSE price
        hfull == Len(st.highs) = maxlen
        highs1 == IF hfull THEN Tail(st.highs) ELSE st.highs
        lows1 == IF hfull THEN Tail(st.lows) ELSE st.lows
        closes1 == IF hfull THEN Tail(st.closes) ELSE st.closes
    IN  [st EXCEPT !.prices = DequeAppend(st.prices, price, maxlen),
                   !.sum_prices = st.sum_prices + price,
                   !.sumsq = DequeAppend(st.sumsq, price * price, maxlen),
                   !.sum_sumsq = st.sum_sumsq + price * price,
                   !.highs = Append(highs1, h),
                   !.lows = Append(lows1, l),
                   !.closes = Append(closes1, price),
                   !.last_price = price]

\* Calculator.update for a tick with a symbol; hlc says whether the tick
\* carries 'high', 'low' and 'close' (price + 1, price - 1, price).
CalcUpdate(st, price, hlc, maxlen) ==
    LET full == Len(st.prices) = maxlen
        sum1 == IF full THEN st.sum_prices - st.prices[1] ELSE st.sum_prices
        sq1 == IF full THEN st.sum_sumsq - st.sumsq[1] ELSE st.sum_sumsq
        h == IF hlc THEN price + 1 ELSE price
        l == IF hlc THEN price - 1 ELSE price
        hfull == Len(st.highs) = maxlen
        highs1 == IF hfull THEN Tail(st.highs) ELSE st.highs
        lows1 == IF hfull THEN Tail(st.lows) ELSE st.lows
        closes1 == IF hfull THEN Tail(st.closes) ELSE st.closes
    IN  [st EXCEPT !.prices = DequeAppend(st.prices, price, maxlen),
                   !.sum_prices = sum1 + price,
                   !.sumsq = DequeAppend(st.sumsq, price * price, maxlen),
                   !.sum_sumsq = sq1 + price * price,
                   !.highs = Append(highs1, h),
                   !.lows = Append(lows1, l),
                   !.closes = Append(closes1, price),
                   !.last_price = price]

\* Calculator.sma
Sma(st, n) ==
    IF n <= 0 \/ Len(st.prices) < n THEN <<>>
    ELSE IF n = Len(st.prices) THEN <<(st.sum_prices * CalcScale) \div n>>
    ELSE <<(SumSeq(LastN(st.prices, n)) * CalcScale) \div n>>

\* arr[-n + 1:] : the last n - 1 items, and the whole list when n = 1.
EmaTail(arr, n) == IF n = 1 THEN arr ELSE LastN(arr, n - 1)

\* ema_v = price * alpha + ema_v * (1 - alpha) with alpha = 2 / (n + 1)
RECURSIVE EmaFold(_, _, _)
EmaFold(ema_v, tail, n) ==
    IF tail = <<>> THEN ema_v
    ELSE EmaFold((2 * Head(tail) * CalcScale + ema_v * (n - 1)) \div (n + 1),
                 Tail(tail), n)

Cached(cache, n) == \E p \in cache : p[1] = n
CacheGet(cache, n) == CHOOSE p \in cache : p[1] = n

\* Calculator.ema: the pair of the state it leaves and the value it returns.
Ema(st, n) ==
    IF n <= 0 \/ Len(st.prices) < n THEN <<st, <<>>>>
    ELSE IF Cached(st.ema, n) THEN <<st, <<CacheGet(st.ema, n)[2]>>>>
    ELSE LET seed == (SumSeq(LastN(st.prices, n)) * CalcScale) \div n
             ema_v == EmaFold(seed, EmaTail(st.prices, n), n)
         IN  <<[st EXCEPT !.ema = @ \cup {<<n, ema_v>>}], <<ema_v>>>>

\* gains and losses over the last n price changes
RECURSIVE Gains(_, _)
Gains(it, n) ==
    IF n = 0 THEN 0
    ELSE LET d == it[Len(it) - n + 1] - it[Len(it) - n]
         IN  (IF d > 0 THEN d ELSE 0) + Gains(it, n - 1)

RECURSIVE Losses(_, _)
Losses(it, n) ==
    IF n = 0 THEN 0
    ELSE LET d == it[Len(it) - n + 1] - it[Len(it) - n]
         IN  (IF d > 0 THEN 0 ELSE 0 - d) + Losses(it, n - 1)

\* 100 - 100 / (1 + avg_gain / avg_loss)
RsiValue(avg_gain, avg_loss) ==
    IF avg_loss = 0 THEN 100 * CalcScale
    ELSE (100 * CalcScale * avg_gain) \div (avg_gain + avg_loss)

\* Calculator.rsi: the state it leaves and the value it returns.
Rsi(st, n) ==
    IF n <= 0 \/ Len(st.prices) < n + 1 THEN <<st, <<>>>>
    ELSE IF Cached(st.rsi_cache, n)
    THEN LET c == CacheGet(st.rsi_cache, n) IN <<st, <<RsiValue(c[2], c[3])>>>>
    ELSE LET avg_gain == (Gains(st.prices, n) * CalcScale) \div n
             avg_loss == (Losses(st.prices, n) * CalcScale) \div n
         IN  <<[st EXCEPT !.rsi_cache = @ \cup {<<n, avg_gain, avg_loss>>}],
               <<RsiValue(avg_gain, avg_loss)>>>>

RECURSIVE SumSqDev(_, _)
SumSqDev(seq, mean) ==
    IF seq = <<>> THEN 0
    ELSE (Head(seq) * CalcScale - mean) * (Head(seq) * CalcScale - mean)
         + SumSqDev(Tail(seq), mean)

\* Calculator.bollinger with k = 2.0
Bollinger(st, n) ==
    IF n <= 0 \/ Len(st.prices) < n THEN <<>>
    ELSE LET last == LastN(st.prices, n)
             mean == (SumSeq(last) * CalcScale) \div n
             std == ISqrt(SumSqDev(last, mean) \div n)
         IN  <<mean, mean + 2 * std, mean - 2 * std>>

\* the true ranges of "for i in range(1, n)"
RECURSIVE TrueRanges(_, _, _)
TrueRanges(st, i, n) ==
    IF i >= n THEN 0
    ELSE LET high == st.highs[Len(st.highs) - i + 1]
             low == st.lows[Len(st.lows) - i + 1]
             prev_close == st.closes[Len(st.closes) - i]
         IN  Max2(high - low, Max2(Abs(high - prev_close), Abs(low - prev_close)))
             + TrueRanges(st, i + 1, n)

\* Calculator.atr
Atr(st, n) ==
    IF n <= 0 \/ Len(st.highs) < n \/ Len(st.lows) < n \/ Len(st.closes) < n
    THEN <<>>
    ELSE IF n = 1 THEN <<>>
    ELSE <<(TrueRanges(st, 1, n) * CalcScale) \div (n - 1)>>

\* A getter called for a symbol: _states.get(sym) creates no state.
GetterResult(sts, op, sym, n) ==
    IF sym \notin DOMAIN sts THEN <<sts, <<>>>>
    ELSE LET st == sts[sym]
             r == CASE op = "sma" -> <<st, Sma(st, n)>>
                    [] op = "ema" -> Ema(st, n)
                    [] op = "rsi" -> Rsi(st, n)
                    [] op = "bollinger" -> <<st, Bollinger(st, n)>>
                    [] OTHER -> <<st, Atr(st, n)>>
         IN  <<PutState(sts, sym, r[1]), r[2]>>

NoCall == [op |-> "none", ret |-> <<>>]
NoStates == [x \in {} |-> NewCalcState]

CalcQuiet ==
    /\ states = NoStates
    /\ called = NoCall
    /\ nupdates = 0

\* Calculator(maxlen): no symbol has a state.
CalcInit == CalcQuiet

UpdateCalled(sym, price, hlc) ==
    /\ nupdates < MaxCalcUpdates
    /\ states' = PutState(states, sym,
                          CalcUpdate(StateOf(states, sym), price, hlc, CalcMaxLen))
    /\ called' = [op |-> "update", ret |-> <<>>]
    /\ nupdates' = nupdates + 1
    /\ UNCHANGED notCalc

GetterCalled(op, sym, n) ==
    /\ LET r == GetterResult(states, op, sym, n)
       IN  /\ states' = r[1]
           /\ called' = [op |-> op, ret |-> r[2]]
    /\ UNCHANGED nupdates
    /\ UNCHANGED notCalc

CalcNext ==
    \/ \E sym \in CalcSymbols, tick \in CalcTicks :
           UpdateCalled(sym, tick[1], tick[2])
    \/ \E op \in GetterOps, sym \in CalcSymbols, n \in Periods :
           GetterCalled(op, sym, n)

\* C27: a call of sma, ema, rsi, bollinger or atr leaves every field of
\* every symbol's state as it was.
C27_GettersReadOnly ==
    [][called'.op \in GetterOps => states' = states]_vars

\* The window after one more price: the last maxlen of the arrivals.
MostRecent(arrived, maxlen) ==
    IF Len(arrived) > maxlen THEN LastN(arrived, maxlen) ELSE arrived

MaxFills == 2
\* Bound: signal records appended in one run.
MaxEngSignals == 2
\* Bound: consecutive empty reads that are counted.
MaxIdlePolls == 2
\* Bound: xreadgroup calls that raise in one run.
MaxReadFaults == 2

\* process_fills_stream: xreadgroup(..., count=5, ...)
FillReadCount == 5

Coroutines == <<"health", "signals", "fills">>

EngNew ==
    [running |-> "none", ready |-> Coroutines, health |-> "new",
     spc |-> "read", sbatch |-> 0, sigs |-> 0, sdelivered |-> 0, sacked |-> 0,
     fpc |-> "read", fbatch |-> 0, fills |-> 0, fdelivered |-> 0, facked |-> 0,
     idle_polls |-> 0, faults |-> 0]

EngQuiet == eng = EngNew

\* run: initialize has returned and gather has scheduled the three coroutines.
EngInit == eng = EngNew

\* The coroutine that was running has given the loop back and may be resumed.
Yield(e, name) == [e EXCEPT !.running = "none", !.ready = Append(@, name)]

IdlePoll(e) == [e EXCEPT !.idle_polls = Min2(@ + 1, MaxIdlePolls)]

\* An order fill is written to the fills stream by the execution side.
FillAppended ==
    /\ eng.fills < MaxFills
    /\ eng' = [eng EXCEPT !.fills = @ + 1]
    /\ UNCHANGED notEng

\* The pattern engine writes a signal to the signals stream.
SignalArrives ==
    /\ eng.sigs < MaxEngSignals
    /\ eng' = [eng EXCEPT !.sigs = @ + 1]
    /\ UNCHANGED notEng

\* The event loop resumes the coroutine at the head of its ready queue.
Dispatch ==
    /\ eng.running = "none"
    /\ eng.ready # <<>>
    /\ eng' = [eng EXCEPT !.running = Head(eng.ready), !.ready = Tail(@)]
    /\ UNCHANGED notEng

\* health_check_server: builds the app, awaits site.start() and returns.
HealthServerStarts ==
    /\ eng.running = "health"
    /\ eng' = [eng EXCEPT !.running = "none", !.health = "serving"]
    /\ UNCHANGED notEng

\* process_signals_stream: xreadgroup returns the records not yet delivered.
SignalsRead ==
    /\ eng.running = "signals"
    /\ eng.spc = "read"
    /\ eng.sdelivered < eng.sigs
    /\ LET n == Min2(ReadCount, eng.sigs - eng.sdelivered)
       IN  eng' = [eng EXCEPT !.spc = "process", !.sbatch = n,
                              !.sdelivered = @ + n, !.idle_polls = 0]
    /\ UNCHANGED notEng

\* xreadgroup blocks for a second and returns nothing: both for loops are
\* empty and the while loop starts again without an await.
SignalsReadEmpty ==
    /\ eng.running = "signals"
    /\ eng.spc = "read"
    /\ eng.sdelivered = eng.sigs
    /\ eng' = IdlePoll(eng)
    /\ UNCHANGED notEng

\* xreadgroup raises: the error is logged and the loop awaits asyncio.sleep(5).
SignalsReadFails ==
    /\ eng.running = "signals"
    /\ eng.spc = "read"
    /\ eng.faults < MaxReadFaults
    /\ eng' = Yield([eng EXCEPT !.faults = @ + 1], "signals")
    /\ UNCHANGED notEng

\* One record of the batch: enhanced_decide_and_order, publish_order, xack.
\* Only the ML analysis (HTTP) suspends the coroutine; it is resumed later
\* and finishes the record.
SignalProcessed(suspends) ==
    /\ eng.running = "signals"
    /\ eng.spc = "process"
    /\ LET e1 == [eng EXCEPT !.sbatch = @ - 1, !.sacked = @ + 1,
                             !.spc = IF eng.sbatch = 1 THEN "read" ELSE "process"]
       IN  eng' = IF suspends THEN Yield(e1, "signals") ELSE e1
    /\ UNCHANGED notEng

\* process_fills_stream: xreadgroup returns the fills not yet delivered.
FillsRead ==
    /\ eng.running = "fills"
    /\ eng.fpc = "read"
    /\ eng.fdelivered < eng.fills
    /\ LET n == Min2(FillReadCount, eng.fills - eng.fdelivered)
       IN  eng' = [eng EXCEPT !.fpc = "process", !.fbatch = n,
                              !.fdelivered = @ + n, !.idle_polls = 0]
    /\ UNCHANGED notEng

\* xreadgroup blocks for two seconds and returns nothing; no await follows.
FillsReadEmpty ==
    /\ eng.running = "fills"
    /\ eng.fpc = "read"
    /\ eng.fdelivered = eng.fills
    /\ eng' = IdlePoll(eng)
    /\ UNCHANGED notEng

\* xreadgroup raises: the error is logged and the loop awaits asyncio.sleep(5).
FillsReadFails ==
    /\ eng.running = "fills"
    /\ eng.fpc = "read"
    /\ eng.faults < MaxReadFaults
    /\ eng' = Yield([eng EXCEPT !.faults = @ + 1], "fills")
    /\ UNCHANGED notEng

\* One fill of the batch: process_fill (synchronous database calls) and xack.
FillProcessed ==
    /\ eng.running = "fills"
    /\ eng.fpc = "process"
    /\ eng' = [eng EXCEPT !.fbatch = @ - 1, !.facked = @ + 1,
                          !.fpc = IF eng.fbatch = 1 THEN "read" ELSE "process"]
    /\ UNCHANGED notEng

EngNext ==
    \/ FillAppended
    \/ SignalArrives
    \/ Dispatch
    \/ HealthServerStarts
    \/ SignalsRead
    \/ SignalsReadEmpty
    \/ SignalsReadFails
    \/ \E suspends \in BOOLEAN : SignalProcessed(suspends)
    \/ FillsRead
    \/ FillsReadEmpty
    \/ FillsReadFails
    \/ FillProcessed

\* The event loop always resumes a ready coroutine and a running coroutine
\* always takes its next step; stream writers and read failures are not
\* obliged to happen.
EngFairness ==
    /\ WF_vars(Dispatch)
    /\ WF_vars(HealthServerStarts)
    /\ WF_vars(SignalsRead)
    /\ WF_vars(SignalsReadEmpty)
    /\ WF_vars(\E suspends \in BOOLEAN : SignalProcessed(suspends))
    /\ WF_vars(FillsRead)
    /\ WF_vars(FillsReadEmpty)
    /\ WF_vars(FillProcessed)

\* C28: every fill appended to the fills stream is eventually read and
\* acknowledged by the engine's fill consumer, whether or not signals arrive.
C28_FillsEventuallyAcked ==
    \A i \in 1..MaxFills : (eng.fills >= i) ~> (eng.facked >= i)

(***************************************************************************)
(* strategy_engine: the price history behind the ML analysis.              *)
(* enhanced_decide_and_order reads the current price from                  *)
(* signal['meta']['price'], appends it to the symbol's history when it is  *)
(* positive, and asks the ML manager for forecast and sentiment only when  *)
(* the history holds at least 10 prices.  A signal is given by the form of *)
(* its 'meta' field: "detector" is the dict update_and_detect builds       *)
(* (ema_fast, ema_slow, vwap, volume, volatility, confidence, tp_hint_pct, *)
(* sl_hint_pct), "priced" a dict that has a 'price' key, "absent" a signal *)
(* without 'meta', and "text" a 'meta' that is a str, as every field read  *)
(* from Redis is.                                                          *)
(***************************************************************************)
\* Bound: signals handed to enhanced_decide_and_order in one run.
MaxConsumed == 11

\* "if len(history) >= 10"
AnalysisMinHistory == 10
\* self.max_history_length
MaxHistoryLength == 100

HistSymbols == {"AAPL", "MSFT"}
MetaForms == {"detector", "priced", "absent", "text"}
MetaPrice == 100

\* price_history.get(symbol, [])
HistoryOf(ph, symbol) == IF symbol \in DOMAIN ph THEN ph[symbol] ELSE <<>>

\* update_price_history keeping the first max_len prices instead of the last.
UpdatePriceHistoryOldest(ph, symbol, price, max_len) ==
    LET h == Append(HistoryOf(ph, symbol), price)
        kept == IF Len(h) > max_len THEN SubSeq(h, 1, max_len) ELSE h
    IN  [x \in DOMAIN ph \cup {symbol} |-> IF x = symbol THEN kept ELSE ph[x]]

\* update_price_history: append, then keep the last max_len prices.
UpdatePriceHistory(ph, symbol, price, max_len) ==
    LET h == Append(HistoryOf(ph, symbol), price)
        kept == IF Len(h) > max_len THEN SubSeq(h, Len(h) - max_len + 1, Len(h))
                ELSE h
    IN  [x \in DOMAIN ph \cup {symbol} |-> IF x = symbol THEN kept ELSE ph[x]]

\* signal.get('meta', {}).get('price', 0.0) raises AttributeError on a str.
MetaPriceRaises(form) == form = "text"
CurrentPrice(form) == IF form = "priced" THEN MetaPrice ELSE 0

NoLast ==
    [symbol |-> "", form |-> "absent", strong |-> FALSE, outcome |-> "none"]

HistNew ==
    [price_history |-> [x \in {} |-> <<>>],
     strong_detector |-> [s \in HistSymbols |-> 0],
     last |-> NoLast, n |-> 0]

HistQuiet == hist = HistNew

\* EnhancedStrategyEngine.__init__: price_history = {}
HistInit == hist = HistNew

\* enhanced_decide_and_order up to the ML analysis, for a signal of the
\* symbol whose |score| is at least MIN_SIGNAL_THRESHOLD (strong) or not.
\* outcome: "skipped" (weak signal), "raised" (the except clause returned
\* None), "queried" (get_enhanced_analysis was awaited) or "zeros" (the
\* zero analysis was used).
SignalConsumed(symbol, form, strong) ==
    /\ hist.n < MaxConsumed
    /\ LET ph1 == IF strong /\ ~MetaPriceRaises(form) /\ CurrentPrice(form) > 0
                  THEN UpdatePriceHistory(hist.price_history, symbol,
                                          CurrentPrice(form), MaxHistoryLength)
                  ELSE hist.price_history
           outcome == IF ~strong THEN "skipped"
                      ELSE IF MetaPriceRaises(form) THEN "raised"
                      ELSE IF Len(HistoryOf(ph1, symbol)) >= AnalysisMinHistory
                      THEN "queried" ELSE "zeros"
       IN  hist' = [price_history |-> ph1,
                    strong_detector |->
                        [hist.strong_detector EXCEPT ![symbol] =
                            IF strong /\ form = "detector" THEN @ + 1 ELSE @],
                    last |-> [symbol |-> symbol, form |-> form,
                              strong |-> strong, outcome |-> outcome],
                    n |-> hist.n + 1]
    /\ UNCHANGED notHist

HistNext ==
    \E symbol \in HistSymbols, form \in MetaForms, strong \in BOOLEAN :
        SignalConsumed(symbol, form, strong)

\* C29: every consumed strong signal built by the detector adds a price to
\* its symbol's history, and the 10th and every later one of a symbol has
\* the ML analysis (forecast and sentiment) queried.
C29_DetectorSignalsFeedAnalysis ==
    /\ \A s \in HistSymbols :
           Len(HistoryOf(hist.price_history, s)) >=
               Min2(hist.strong_detector[s], MaxHistoryLength)
    /\ (/\ hist.last.form = "detector"
        /\ hist.last.strong
        /\ hist.strong_detector[hist.last.symbol] >= AnalysisMinHistory)
       => hist.last.outcome = "queried"

(***************************************************************************)
(* strategy_engine: calculate_position_size on its own, for the values     *)
(* MAX_POSITION_SIZE can be configured to (int() of the environment        *)
(* variable accepts any integer).  Scores are in units of 1/ScoreUnit,     *)
(* ml_confidence in 1/Milli, ATR and price in price units.                 *)
(***************************************************************************)
SizeScores == {0 - ScoreUnit, 0 - (ScoreUnit \div 2), 0, ScoreUnit \div 4, ScoreUnit}
SizeConfidences == {0, 500, Milli, 3 * Milli}
SizeAtrs == {0, 1, 5}
SizePrices == {0, 100}
SizeMaxima == {0 - 10, 0, 1, 50, MaxPositionSize}

SizeNew(combined_score, ml_confidence, atr14, current_price, max_position_size) ==
    [pc |-> "called", combined_score |-> combined_score,
     ml_confidence |-> ml_confidence, atr14 |-> atr14,
     current_price |-> current_price, max_position_size |-> max_position_size,
     result |-> 0]

SizeQuiet == size = SizeNew(0, 0, 0, 0, MaxPositionSize)

\* calculate_position_size is about to be called in a process started with
\* some MAX_POSITION_SIZE.
SizeInit ==
    \E combined_score \in SizeScores, ml_confidence \in SizeConfidences,
       atr14 \in SizeAtrs, current_price \in SizePrices,
       max_position_size \in SizeMaxima :
        size = SizeNew(combined_score, ml_confidence, atr14, current_price,
                       max_position_size)

PositionSizeCalled ==
    /\ size.pc = "called"
    /\ size' = [size EXCEPT !.pc = "done",
                            !.result = CalculatePositionSizeWith(
                                size.combined_score, size.ml_confidence,
                                size.atr14, size.current_price,
                                size.max_position_size)]
    /\ UNCHANGED notSize

SizeNext == PositionSizeCalled

\* C34: the size calculate_position_size returns never exceeds the
\* configured MAX_POSITION_SIZE.
C34_SizeWithinMaximum ==
    size.pc = "done" => size.result <= size.max_position_size

(***************************************************************************)
(* strategy_engine/ml_client.py: SentimentClient.get_symbol_sentiment and  *)
(* its cache.  Time is the event loop's clock in seconds; sentiment scores *)
(* are in units of 1/Milli.  The backend answers a lookup with a numeric   *)
(* score, fails (connection error, timeout, HTTP error status), or answers *)
(* with a sentiment_score that is not a number (null or a string), which   *)
(* the ":.3f" of the debug message cannot format.                          *)
(***************************************************************************)
\* Bound: get_symbol_sentiment calls in one run.
MaxQueries == 3
\* Bound: the clock value up to which time advances.
MaxClock == 601

\* "< 300  # 5 minute cache"
SentimentCacheSeconds == 300

CacheKeys == {"AAPL_1h", "MSFT_1h"}
SentimentScores == {0 - 200, 500}
BackendAnswers == {"score", "error", "not_a_number"}
ClockSteps == {299, 300}

NoQuery ==
    [key |-> "", outcome |-> "none", backend |-> FALSE, is_float |-> TRUE,
     ret |-> 0]

SentiNew == [cache |-> [k \in {} |-> 0], now |-> 0, last |-> NoQuery, n |-> 0]

SentiQuiet == senti = SentiNew

\* SentimentClient.__init__: sentiment_cache = {}
SentiInit == senti = SentiNew

\* "cache_key in self.sentiment_cache" and the entry younger than 300 s
CacheFresh(cache, key, now) ==
    key \in DOMAIN cache /\ now - cache[key].time < SentimentCacheSeconds

\* self.sentiment_cache[cache_key] = (time, sentiment_score)
CachePut(cache, key, time, score, is_float) ==
    [k \in DOMAIN cache \cup {key} |->
        IF k = key THEN [time |-> time, sentiment |-> score, is_float |-> is_float]
        ELSE cache[k]]

\* get_symbol_sentiment(symbol, window) with the backend's answer, its score
\* and the seconds the request takes: [cache, now, last] afterwards.
GetSymbolSentiment(s, key, answer, score, took) ==
    IF CacheFresh(s.cache, key, s.now)
    THEN [s EXCEPT !.last = [key |-> key, outcome |-> "cached", backend |-> FALSE,
                             is_float |-> s.cache[key].is_float,
                             ret |-> s.cache[key].sentiment]]
    ELSE LET done == s.now + took
         IN  CASE answer = "score" ->
                    [s EXCEPT !.cache = CachePut(s.cache, key, done, score, TRUE),
                              !.now = done,
                              !.last = [key |-> key, outcome |-> "fetched",
                                        backend |-> TRUE, is_float |-> TRUE,
                                        ret |-> score]]
               [] answer = "not_a_number" ->
                    \* the cache is written, then the debug f-string raises
                    [s EXCEPT !.cache = CachePut(s.cache, key, done, 0, FALSE),
                              !.now = done,
                              !.last = [key |-> key, outcome |-> "failed",
                                        backend |-> TRUE, is_float |-> TRUE,
                                        ret |-> 0]]
               [] OTHER ->
                    [s EXCEPT !.now = done,
                              !.last = [key |-> key, outcome |-> "failed",
                                        backend |-> TRUE, is_float |-> TRUE,
                                        ret |-> 0]]

SentimentQueried(key, answer, score, took) ==
    /\ senti.n < MaxQueries
    /\ senti' = [GetSymbolSentiment(senti, key, answer, score, took)
                    EXCEPT !.n = senti.n + 1]
    /\ UNCHANGED notSenti

\* Time passes between two calls.
ClockAdvances(dt) ==
    /\ senti.now + dt <= MaxClock
    /\ senti' = [senti EXCEPT !.now = @ + dt]
    /\ UNCHANGED notSenti

SentiNext ==
    \/ \E key \in CacheKeys, answer \in BackendAnswers, score \in SentimentScores,
          took \in {0, 1} : SentimentQueried(key, answer, score, took)
    \/ \E dt \in ClockSteps : ClockAdvances(dt)

\* C35: within 300 s of a cached lookup a repeat query is answered from the
\* cache without a backend call, from 300 s on the backend is called again,
\* and a lookup that fails returns 0.0 and leaves the cache unchanged.
C35_CacheAndFailedLookup ==
    [][senti'.n # senti.n =>
          LET key == senti'.last.key
              cached == key \in DOMAIN senti.cache
          IN  /\ (cached /\ senti.now - senti.cache[key].time < 300) =>
                     /\ ~senti'.last.backend
                     /\ senti'.last.ret = senti.cache[key].sentiment
                     /\ senti'.cache = senti.cache
              /\ (cached /\ senti.now - senti.cache[key].time >= 300) =>
                     senti'.last.backend
              /\ senti'.last.outcome = "failed" =>
                     /\ senti'.last.ret = 0
                     /\ senti'.cache = senti.cache]_vars

(***************************************************************************)
(* strategy_engine/ml_client.py: TensorRTClient on its own.  available is  *)
(* "none" (Python's None) until a health probe has answered.  probes and   *)
(* posts count the GET /health and POST /infer/forecast requests sent.     *)
(***************************************************************************)
\* Bound: calls of TensorRTClient methods in one run.
MaxTrtCalls == 5

\* What a health probe meets: status 200, another status, an exception, or
\* the cancellation of the awaiting task (CancelledError is no Exception).
HealthAnswers == {"ok", "bad_status", "error", "cancelled"}
\* What a forecast request meets.
ForecastAnswers == {"forecast", "error"}

NeedsProbeWhenFalsy(available) == available # "true"

\* "if self.available is None"
NeedsProbe(available) == available = "none"

\* self.available after a probe with this answer
Probed(available, health) ==
    CASE health = "ok" -> "true"
      [] health = "cancelled" -> available
      [] OTHER -> "false"

TrtNew ==
    [available |-> "none", probes |-> 0, posts |-> 0, n |-> 0,
     last |-> [op |-> "none", ret |-> "", probed |-> FALSE]]

TrtQuiet == trt = TrtNew

\* TensorRTClient.__init__: available = None
TrtInit == trt = TrtNew

\* is_available(): "true"/"false" is what it returns, "cancelled" when the
\* task was cancelled inside the probe.
IsAvailable(t, health) ==
    IF NeedsProbe(t.available)
    THEN [available |-> Probed(t.available, health), probed |-> TRUE,
          ret |-> IF health = "cancelled" THEN "cancelled"
                  ELSE Probed(t.available, health)]
    ELSE [available |-> t.available, probed |-> FALSE, ret |-> t.available]

IsAvailableCalled(health) ==
    /\ trt.n < MaxTrtCalls
    /\ LET r == IsAvailable(trt, health)
       IN  trt' = [trt EXCEPT !.available = r.available,
                              !.probes = IF r.probed THEN @ + 1 ELSE @,
                              !.n = @ + 1,
                              !.last = [op |-> "is_available", ret |-> r.ret,
                                        probed |-> r.probed]]
    /\ UNCHANGED notTrt

\* get_forecast(): the empty forecast when is_available() is false, else
\* one POST whose failure also gives the empty forecast.
GetForecastCalled(health, answer) ==
    /\ trt.n < MaxTrtCalls
    /\ LET r == IsAvailable(trt, health)
           posted == r.ret = "true"
       IN  trt' = [trt EXCEPT !.available = r.available,
                              !.probes = IF r.probed THEN @ + 1 ELSE @,
                              !.posts = IF posted THEN @ + 1 ELSE @,
                              !.n = @ + 1,
                              !.last = [op |-> "get_forecast",
                                        ret |-> IF r.ret = "cancelled" THEN "cancelled"
                                                ELSE IF posted /\ answer = "forecast"
                                                THEN "forecast" ELSE "empty",
                                        probed |-> r.probed]]
    /\ UNCHANGED notTrt

TrtNext ==
    \/ \E health \in HealthAnswers : IsAvailableCalled(health)
    \/ \E health \in HealthAnswers, answer \in ForecastAnswers :
           GetForecastCalled(health, answer)

\* C37: once available is False, no call sends a health probe or a forecast
\* request, available stays False, and every get_forecast returns the empty
\* forecast.
C37_UnavailableIsFinal ==
    [][trt.available = "false" =>
          /\ trt'.available = "false"
          /\ trt'.probes = trt.probes
          /\ trt'.posts = trt.posts
          /\ (trt'.n # trt.n /\ trt'.last.op = "get_forecast") =>
                 trt'.last.ret = "empty"]_vars

\* A get_forecast answered with the empty forecast without a probe, after an
\* earlier call's probe found the backend unavailable.
C37_Witness ==
    /\ trt.available = "false"
    /\ trt.probes = 1 /\ trt.posts = 0
    /\ trt.last.op = "get_forecast" /\ ~trt.last.probed
    /\ trt.last.ret = "empty"

(***************************************************************************)
(* strategy_engine: update_price_history on its own.  A run starts from a  *)
(* price_history that earlier calls have built: per symbol no entry, or    *)
(* the prices 1..k appended in that order, for k up to max_history_length. *)
(* arrived is the record of every price appended for a symbol, before is   *)
(* price_history as the last call found it.                                *)
(***************************************************************************)
\* Bound: update_price_history calls in one run.
MaxAppends == 3

\* How many prices a symbol has when the run starts (0: no entry).
Prefills == {0, 1, MaxHistoryLength - 1, MaxHistoryLength}
AppendedPrices == {200, 201}

Prefilled(k) == [i \in 1..k |-> i]

TrimNew(k) ==
    LET ph == [s \in {x \in HistSymbols : k[x] > 0} |-> Prefilled(k[s])]
    IN  [price_history |-> ph,
         arrived |-> [s \in HistSymbols |-> Prefilled(k[s])],
         before |-> ph, symbol |-> "", n |-> 0]

TrimQuiet == trim = TrimNew([s \in HistSymbols |-> 0])

TrimInit == \E k \in [HistSymbols -> Prefills] : trim = TrimNew(k)

\* await self.update_price_history(symbol, price)
PriceHistoryUpdated(symbol, price) ==
    /\ trim.n < MaxAppends
    /\ trim' = [price_history |->
                    UpdatePriceHistory(trim.price_history, symbol, price,
                                       MaxHistoryLength),
                arrived |-> [trim.arrived EXCEPT ![symbol] = Append(@, price)],
                before |-> trim.price_history,
                symbol |-> symbol,
                n |-> trim.n + 1]
    /\ UNCHANGED notTrim

TrimNext ==
    \E symbol \in HistSymbols, price \in AppendedPrices :
        PriceHistoryUpdated(symbol, price)

\* C40: every symbol's history holds at most max_history_length prices, the
\* most recently appended ones of that symbol in arrival order, and the last
\* call left the history of every other symbol as it found it.
C40_HistoryKeepsMostRecent ==
    /\ \A s \in HistSymbols :
           LET h == HistoryOf(trim.price_history, s)
           IN  /\ Len(h) <= MaxHistoryLength
               /\ h = MostRecent(trim.arrived[s], MaxHistoryLength)
    /\ trim.symbol # "" =>
           \A s \in HistSymbols \ {trim.symbol} :
               /\ (s \in DOMAIN trim.price_history) = (s \in DOMAIN trim.before)
               /\ HistoryOf(trim.price_history, s) = HistoryOf(trim.before, s)

\* A call has dropped the oldest price of a full history while another
\* symbol had a history of its own.
C40_Witness ==
    /\ trim.symbol # ""
    /\ Len(trim.arrived[trim.symbol]) > MaxHistoryLength
    /\ Len(HistoryOf(trim.price_history, trim.symbol)) = MaxHistoryLength
    /\ HistoryOf(trim.price_history, trim.symbol)[MaxHistoryLength]
           \in AppendedPrices
    /\ \E s \in HistSymbols \ {trim.symbol} :
           Len(HistoryOf(trim.price_history, s)) >= 1

(***************************************************************************)
(* Specifications, one per component.                                      *)
(***************************************************************************)
InitDetector == DetInit /\ PubQuiet /\ RaceQuiet /\ ConsQuiet /\ DecQuiet /\ PartQuiet /\ ReplayQuiet /\ BootQuiet /\ StateQuiet /\ RtQuiet /\ CalcQuiet /\ EngQuiet /\ HistQuiet /\ SizeQuiet /\ SentiQuiet /\ TrtQuiet /\ TrimQuiet
InitPublish == PubInit /\ DetQuiet /\ RaceQuiet /\ ConsQuiet /\ DecQuiet /\ PartQuiet /\ ReplayQuiet /\ BootQuiet /\ StateQuiet /\ RtQuiet /\ CalcQuiet /\ EngQuiet /\ HistQuiet /\ SizeQuiet /\ SentiQuiet /\ TrtQuiet /\ TrimQuiet
InitRacer == RaceInit /\ DetQuiet /\ PubQuiet /\ ConsQuiet /\ DecQuiet /\ PartQuiet /\ ReplayQuiet /\ BootQuiet /\ StateQuiet /\ RtQuiet /\ CalcQuiet /\ EngQuiet /\ HistQuiet /\ SizeQuiet /\ SentiQuiet /\ TrtQuiet /\ TrimQuiet
InitConsumer == ConsInit /\ DetQuiet /\ PubQuiet /\ RaceQuiet /\ DecQuiet /\ PartQuiet /\ ReplayQuiet /\ BootQuiet /\ StateQuiet /\ RtQuiet /\ CalcQuiet /\ EngQuiet /\ HistQuiet /\ SizeQuiet /\ SentiQuiet /\ TrtQuiet /\ TrimQuiet
InitDecide == DecInit /\ DetQuiet /\ PubQuiet /\ RaceQuiet /\ ConsQuiet /\ PartQuiet /\ ReplayQuiet /\ BootQuiet /\ StateQuiet /\ RtQuiet /\ CalcQuiet /\ EngQuiet /\ HistQuiet /\ SizeQuiet /\ SentiQuiet /\ TrtQuiet /\ TrimQuiet
InitPartition == PartInit /\ DetQuiet /\ PubQuiet /\ RaceQuiet /\ ConsQuiet /\ DecQuiet /\ ReplayQuiet /\ BootQuiet /\ StateQuiet /\ RtQuiet /\ CalcQuiet /\ EngQuiet /\ HistQuiet /\ SizeQuiet /\ SentiQuiet /\ TrtQuiet /\ TrimQuiet
InitReplay == ReplayInit /\ DetQuiet /\ PubQuiet /\ RaceQuiet /\ ConsQuiet /\ DecQuiet /\ PartQuiet /\ BootQuiet /\ StateQuiet /\ RtQuiet /\ CalcQuiet /\ EngQuiet /\ HistQuiet /\ SizeQuiet /\ SentiQuiet /\ TrtQuiet /\ TrimQuiet
InitBoot == BootInit /\ DetQuiet /\ PubQuiet /\ RaceQuiet /\ ConsQuiet /\ DecQuiet /\ PartQuiet /\ ReplayQuiet /\ StateQuiet /\ RtQuiet /\ CalcQuiet /\ EngQuiet /\ HistQuiet /\ SizeQuiet /\ SentiQuiet /\ TrtQuiet /\ TrimQuiet
InitState == StateInit /\ DetQuiet /\ PubQuiet /\ RaceQuiet /\ ConsQuiet /\ DecQuiet /\ PartQuiet /\ ReplayQuiet /\ BootQuiet /\ RtQuiet /\ CalcQuiet /\ EngQuiet /\ HistQuiet /\ SizeQuiet /\ SentiQuiet /\ TrtQuiet /\ TrimQuiet
InitRoundTrip == RtInit /\ DetQuiet /\ PubQuiet /\ RaceQuiet /\ ConsQuiet /\ DecQuiet /\ PartQuiet /\ ReplayQuiet /\ BootQuiet /\ StateQuiet /\ CalcQuiet /\ EngQuiet /\ HistQuiet /\ SizeQuiet /\ SentiQuiet /\ TrtQuiet /\ TrimQuiet
InitCalculator == CalcInit /\ DetQuiet /\ PubQuiet /\ RaceQuiet /\ ConsQuiet /\ DecQuiet /\ PartQuiet /\ ReplayQuiet /\ BootQuiet /\ StateQuiet /\ RtQuiet /\ EngQuiet /\ HistQuiet /\ SizeQuiet /\ SentiQuiet /\ TrtQuiet /\ TrimQuiet
InitEngine == EngInit /\ DetQuiet /\ PubQuiet /\ RaceQuiet /\ ConsQuiet /\ DecQuiet /\ PartQuiet /\ ReplayQuiet /\ BootQuiet /\ StateQuiet /\ RtQuiet /\ CalcQuiet /\ HistQuiet /\ SizeQuiet /\ SentiQuiet /\ TrtQuiet /\ TrimQuiet
InitHistory == HistInit /\ DetQuiet /\ PubQuiet /\ RaceQuiet /\ ConsQuiet /\ DecQuiet /\ PartQuiet /\ ReplayQuiet /\ BootQuiet /\ StateQuiet /\ RtQuiet /\ CalcQuiet /\ EngQuiet /\ SizeQuiet /\ SentiQuiet /\ TrtQuiet /\ TrimQuiet
InitSize == SizeInit /\ DetQuiet /\ PubQuiet /\ RaceQuiet /\ ConsQuiet /\ DecQuiet /\ PartQuiet /\ ReplayQuiet /\ BootQuiet /\ StateQuiet /\ RtQuiet /\ CalcQuiet /\ EngQuiet /\ HistQuiet /\ SentiQuiet /\ TrtQuiet /\ TrimQuiet
InitSentiment == SentiInit /\ DetQuiet /\ PubQuiet /\ RaceQuiet /\ ConsQuiet /\ DecQuiet /\ PartQuiet /\ ReplayQuiet /\ BootQuiet /\ StateQuiet /\ RtQuiet /\ CalcQuiet /\ EngQuiet /\ HistQuiet /\ SizeQuiet /\ TrtQuiet /\ TrimQuiet
InitTensorRT == TrtInit /\ DetQuiet /\ PubQuiet /\ RaceQuiet /\ ConsQuiet /\ DecQuiet /\ PartQuiet /\ ReplayQuiet /\ BootQuiet /\ StateQuiet /\ RtQuiet /\ CalcQuiet /\ EngQuiet /\ HistQuiet /\ SizeQuiet /\ SentiQuiet /\ TrimQuiet
InitTrim == TrimInit /\ DetQuiet /\ PubQuiet /\ RaceQuiet /\ ConsQuiet /\ DecQuiet /\ PartQuiet /\ ReplayQuiet /\ BootQuiet /\ StateQuiet /\ RtQuiet /\ CalcQuiet /\ EngQuiet /\ HistQuiet /\ SizeQuiet /\ SentiQuiet /\ TrtQuiet

SpecDetector == InitDetector /\ [][DetNext]_vars

SpecPublish == InitPublish /\ [][PubNext]_vars

SpecRacer == InitRacer /\ [][RaceNext]_vars

SpecConsumer == InitConsumer /\ [][ConsNext]_vars

FairSpecConsumer == SpecConsumer /\ ConsFairness

SpecDecide == InitDecide /\ [][DecNext]_vars

SpecPartition == InitPartition /\ [][PartNext]_vars

SpecReplay == InitReplay /\ [][ReplayNext]_vars

SpecBoot == InitBoot /\ [][BootNext]_vars

SpecState == InitState /\ [][StateNext]_vars

SpecRoundTrip == InitRoundTrip /\ [][RtNext]_vars

SpecCalculator == InitCalculator /\ [][CalcNext]_vars

SpecEngine == InitEngine /\ [][EngNext]_vars

SpecHistory == InitHistory /\ [][HistNext]_vars

SpecSize == InitSize /\ [][SizeNext]_vars

SpecSentiment == InitSentiment /\ [][SentiNext]_vars

SpecTensorRT == InitTensorRT /\ [][TrtNext]_vars

SpecTrim == InitTrim /\ [][TrimNext]_vars

FairSpecEngine == SpecEngine /\ EngFairness

====
